---- MODULE Spec2Model ----
(***************************************************************************)
(* Model of the multi-agent job search pipeline:                           *)
(*   src/src/core/job_search_crew.py    JobSearchCrew (the orchestrator)   *)
(*   src/src/agents/job_discovery.py    discover_jobs                      *)
(*   src/src/tools/job_search_tools.py  JobSearchTool._run,                *)
(*                                      search_jobs_for_candidate          *)
(*   src/src/config/settings.py         Settings (the fields it declares)  *)
(*   src/src/agents/ranking_agent.py    rank_job_matches, _fallback_ranking*)
(*   src/src/agents/skill_matcher.py    match_candidate_to_job             *)
(*   src/src/agents/resume_analyst.py   parse_resume                       *)
(*   src/src/models/domain.py           Skill.normalize_category           *)
(*   src/src/ui/app.py                  the Streamlit wizard (steps 1..7)  *)
(*                                                                         *)
(* The text generator (crew.kickoff) and the job-search API are external   *)
(* collaborators: their responses are inputs drawn with \E.  The API's     *)
(* response is what a request would be answered with; JobSearchTool._run   *)
(* fails before it makes the request, so the response is never consulted.  *)
(* A generator response is represented by what the stage's parsing code    *)
(* makes of it:                                                            *)
(*   "raise"     crew.kickoff() itself raised                              *)
(*   "no_json"   re.search(r'\{[\s\S]*\}') found nothing                   *)
(*   "bad_json"  json.loads raised JSONDecodeError                         *)
(*   "json"      json.loads returned a dict                                *)
(* Log entries are [step, ev] records; the "[HH:MM:SS] " wall-clock prefix *)
(* and the free text of the message are not represented.                   *)
(***************************************************************************)
EXTENDS Integers, Sequences, FiniteSets, TLC

VARIABLES
    candidate_profile,  \* JobSearchCrew.candidate_profile  (NoProfile = None)
    discovered_jobs,    \* JobSearchCrew.discovered_jobs    (list of JobPosting)
    job_matches,        \* JobSearchCrew.job_matches        (list of JobMatchResult)
    ranking,            \* JobSearchCrew.ranking            (<<>> = None, <<d>> = dict d)
    execution_log,      \* JobSearchCrew.execution_log
    pc,                 \* position inside run_full_pipeline ("idle" outside it)
    run,                \* history of the current/last run_full_pipeline call
    last,               \* the most recent transition invocation and its outcome
    calls,              \* number of calls the client has made on the instance
    call,               \* pure-function specifications: the arguments
    ret,                \* pure-function specifications: the result
    crews,              \* two-instance specification: the JobSearchCrew objects
    st                  \* wizard specification: the Streamlit session

vars == <<candidate_profile, discovered_jobs, job_matches, ranking,
          execution_log, pc, run, last, calls, call, ret, crews, st>>

crew_vars == <<candidate_profile, discovered_jobs, job_matches, ranking,
               execution_log, pc, run, last, calls>>

(***************************************************************************)
(* Bounds                                                                  *)
(***************************************************************************)
\* exploration bound on the unbounded sequence of calls of a client (the
\* transitions, log, run_full_pipeline): the behaviours explored are those
\* of at most this many calls on one instance, each call running to its end
MaxCalls == 3
\* number of distinct job ids the search API and the generator can name
MaxJobId == 2
\* longest enumerated API response (two longer fixed responses are added)
MaxApiLen == 3
\* longest recommended_jobs list the generator returns
MaxRecLen == 2
\* largest num_jobs passed to discover_jobs in the pure-function specification
MaxNumJobs == 3
\* largest number of match results handed to rank_job_matches directly
MaxRankLen == 3
MaxBatchJobs == 2
MaxBatchLen == 2
MaxStrLen == 3

(***************************************************************************)
(* Program constants                                                       *)
(***************************************************************************)
\* num_results=10 of the second search in discover_jobs
SearchLimit == 10
\* "if len(filtered_jobs) < 3"
MinFiltered == 3
\* job.get("job_id", "") returning None: JobPosting(job_id=None) fails
NullId == 0

(***************************************************************************)
(* Generic helpers (Python list semantics)                                 *)
(***************************************************************************)
Min(a, b) == IF a <= b THEN a ELSE b
Max(a, b) == IF a >= b THEN a ELSE b

\* s[:n]  (a negative n counts from the end, as in Python)
PySliceTo(s, n) ==
    LET k == IF n >= 0 THEN Min(n, Len(s)) ELSE Max(Len(s) + n, 0)
    IN  SubSeq(s, 1, k)

IsPrefix(s, t) == Len(s) <= Len(t) /\ SubSeq(t, 1, Len(s)) = s

SeqsUpTo(S, n) == UNION {[1..k -> S] : k \in 0..n}

(***************************************************************************)
(* Python Optional values: None is <<>>, a value x is <<x>>                *)
(***************************************************************************)
None == <<>>
Some(x) == <<x>>

(***************************************************************************)
(* Job search tool  (src/src/tools/job_search_tools.py)                    *)
(* An API response is [ok, data]: ok = FALSE stands for a failed request   *)
(* (requests raises, caught inside _run); data is the "data" list of raw   *)
(* records, a record being its job_id (NullId for "job_id": null).         *)
(* _run reads settings.rapidapi_host and settings.rapidapi_key inside its  *)
(* try block before it makes the request; the class Settings declares no   *)
(* such fields, so the lookup raises AttributeError, which the last except *)
(* clause turns into one error record: no request is made.                 *)
(***************************************************************************)
\* the fields of the class Settings
SettingsFields == {"environment", "log_level", "ollama", "agent"}

\* the settings attributes _run reads
ToolSettings == {"rapidapi_host", "rapidapi_key"}

ErrorRecord == [error |-> TRUE, job_id |-> NullId]

JobSearchTool_run(api, num_results) ==
    \* settings.rapidapi_host raises AttributeError -> except Exception
    IF ~(ToolSettings \subseteq SettingsFields)
    THEN <<ErrorRecord>>
    \* requests.get / raise_for_status raise -> except RequestException
    ELSE IF ~api.ok
    THEN <<ErrorRecord>>
    ELSE LET jobs == PySliceTo(api.data, num_results)
         IN  [i \in 1..Len(jobs) |-> [error |-> FALSE, job_id |-> jobs[i]]]

JobPosting(job_id) == [job_id |-> job_id]

search_jobs_for_candidate(api, num_results) ==
    LET results == JobSearchTool_run(api, num_results)
        \* "error" in job_data -> continue; JobPosting(job_id=None) raises -> continue
        kept == SelectSeq(results, LAMBDA r : ~r.error /\ r.job_id # NullId)
    IN  [i \in 1..Len(kept) |-> JobPosting(kept[i].job_id)]

(***************************************************************************)
(* Opportunity discovery  (src/src/agents/job_discovery.py)                *)
(* gen = [kind, recommended]: for kind "json", recommended is the value of *)
(* parsed_data.get("recommended_jobs", []) as a list of entries            *)
(* [has_id, job_id]; kind "json_nonlist" is a JSON object whose            *)
(* recommended_jobs is truthy but not a list of objects.                   *)
(* The value returned depends on the response of exactly one search call   *)
(* (the last one made), which is the api argument.                         *)
(***************************************************************************)
Returned(v) == [raised |-> FALSE, value |-> v]
Raised == [raised |-> TRUE, value |-> <<>>]

\* mutant: the opportunities are built from the ids the generator recommends
discover_jobs_FromGenerator(gen, api, num_jobs) ==
    IF gen.kind = "raise" THEN Raised
    ELSE IF gen.kind \in {"no_json", "bad_json", "json_nonlist"}
    THEN Returned(search_jobs_for_candidate(api, num_jobs))
    ELSE IF gen.recommended = <<>>
    THEN Returned(search_jobs_for_candidate(api, num_jobs))
    ELSE IF \E i \in 1..Len(gen.recommended) : ~gen.recommended[i].has_id
    THEN Returned(search_jobs_for_candidate(api, num_jobs))
    ELSE Returned(PySliceTo([i \in 1..Len(gen.recommended) |->
                               JobPosting(gen.recommended[i].job_id)], num_jobs))

discover_jobs(gen, api, num_jobs) ==
    \* result = crew.kickoff() is outside the try block
    IF gen.kind = "raise" THEN Raised
    \* no regex match / JSONDecodeError / TypeError on the entries -> except
    ELSE IF gen.kind \in {"no_json", "bad_json", "json_nonlist"}
    THEN Returned(search_jobs_for_candidate(api, num_jobs))
    \* if not recommended
    ELSE IF gen.recommended = <<>>
    THEN Returned(search_jobs_for_candidate(api, num_jobs))
    \* job["job_id"] raises KeyError -> except
    ELSE IF \E i \in 1..Len(gen.recommended) : ~gen.recommended[i].has_id
    THEN Returned(search_jobs_for_candidate(api, num_jobs))
    ELSE LET all_jobs == search_jobs_for_candidate(api, SearchLimit)
             ids == {gen.recommended[i].job_id : i \in 1..Len(gen.recommended)}
             filtered_jobs == SelectSeq(all_jobs, LAMBDA job : job.job_id \in ids)
         IN  Returned(PySliceTo(IF Len(filtered_jobs) < MinFiltered
                                THEN PySliceTo(all_jobs, num_jobs)
                                ELSE filtered_jobs, num_jobs))

(***************************************************************************)
(* Outcomes of a stage function that propagates its failures               *)
(* (parse_resume, match_candidate_to_job, match_candidate_to_jobs_batch):  *)
(* the value returned, or the class and message of the error raised.       *)
(***************************************************************************)
ValueError(msg) ==
    [raised |-> TRUE, value |-> <<>>, error |-> "ValueError", msg |-> msg]

\* an exception of crew.kickoff() propagates unchanged
KickoffError ==
    [raised |-> TRUE, value |-> <<>>, error |-> "Exception", msg |-> "kickoff"]

Ok(v) == [raised |-> FALSE, value |-> v, error |-> "none", msg |-> ""]

NoJsonFound == "No JSON object found in agent output"
MalformedJson == "Malformed JSON in agent output"
NotValidJson == "Agent output was not valid JSON"
ValidationFailed == "validation error"

\* except Exception as e: raise ValueError(f"<prefix>: {e}")
Wrapped(prefix, e) == <<prefix, e>>

(***************************************************************************)
(* Extraction of a JSON object from raw generator text                     *)
(* (src/src/agents/skill_matcher.py, lines 294-343 and 591-637)            *)
(* A text is a sequence of tokens; its characters are the concatenation of *)
(* the tokens.  Tokens are the single characters { } [ ] " \ , : space,    *)
(* the letter a and the digit 1, and the two words <fence> (the code fence  *)
(* of three backquotes) and json.                                          *)
(***************************************************************************)
Quote == "\""
Backslash == "\\"
Fence == "<fence>"

\* the first index >= i of s that holds no white space
RECURSIVE SkipSpace(_, _)
SkipSpace(s, i) ==
    IF i <= Len(s) /\ s[i] = " " THEN SkipSpace(s, i + 1) ELSE i

\* re.sub(r"<fence>json\s*", "", s) from index i on
RECURSIVE sub_fence_json(_, _)
sub_fence_json(s, i) ==
    IF i > Len(s) THEN <<>>
    ELSE IF s[i] = Fence /\ i < Len(s) /\ s[i + 1] = "json"
    THEN sub_fence_json(s, SkipSpace(s, i + 2))
    ELSE <<s[i]>> \o sub_fence_json(s, i + 1)

\* re.sub(r"<fence>\s*", "", s) from index i on
RECURSIVE sub_fence(_, _)
sub_fence(s, i) ==
    IF i > Len(s) THEN <<>>
    ELSE IF s[i] = Fence THEN sub_fence(s, SkipSpace(s, i + 1))
    ELSE <<s[i]>> \o sub_fence(s, i + 1)

strip_fences(result_str) == sub_fence(sub_fence_json(result_str, 1), 1)

\* s.find(c) + 1: the first index of c in s, 0 if there is none
find(s, c) ==
    IF \E i \in 1..Len(s) : s[i] = c
    THEN CHOOSE i \in 1..Len(s) : s[i] = c /\ \A j \in 1..(i - 1) : s[j] # c
    ELSE 0

RECURSIVE closing_brace(_, _, _, _, _)
\* mutant: the scan counts every brace, also those inside strings
closing_brace_NoStrings(s, i, depth, in_string, escape_next) ==
    IF i > Len(s) THEN 0
    ELSE IF s[i] = "{" THEN closing_brace(s, i + 1, depth + 1, FALSE, FALSE)
    ELSE IF s[i] = "}"
    THEN IF depth - 1 = 0 THEN i
         ELSE closing_brace(s, i + 1, depth - 1, FALSE, FALSE)
    ELSE closing_brace(s, i + 1, depth, FALSE, FALSE)

\* the for loop that looks for the matching closing brace, from index i on:
\* the index of that brace, 0 if the loop ends without one
closing_brace(s, i, depth, in_string, escape_next) ==
    IF i > Len(s) THEN 0
    ELSE IF escape_next THEN closing_brace(s, i + 1, depth, in_string, FALSE)
    ELSE IF s[i] = Backslash THEN closing_brace(s, i + 1, depth, in_string, TRUE)
    ELSE IF s[i] = Quote THEN closing_brace(s, i + 1, depth, ~in_string, FALSE)
    ELSE IF in_string THEN closing_brace(s, i + 1, depth, in_string, FALSE)
    ELSE IF s[i] = "{" THEN closing_brace(s, i + 1, depth + 1, in_string, FALSE)
    ELSE IF s[i] = "}"
    THEN IF depth - 1 = 0 THEN i
         ELSE closing_brace(s, i + 1, depth - 1, in_string, FALSE)
    ELSE closing_brace(s, i + 1, depth, in_string, FALSE)

\* re.sub(r",\s*<close>", "<close>", s) from index i on
RECURSIVE sub_trailing_comma(_, _, _)
sub_trailing_comma(s, close, i) ==
    IF i > Len(s) THEN <<>>
    ELSE IF s[i] = "," /\ SkipSpace(s, i + 1) <= Len(s)
                       /\ s[SkipSpace(s, i + 1)] = close
    THEN <<close>> \o sub_trailing_comma(s, close, SkipSpace(s, i + 1) + 1)
    ELSE <<s[i]>> \o sub_trailing_comma(s, close, i + 1)

fix_commas(json_str) ==
    sub_trailing_comma(sub_trailing_comma(json_str, "}", 1), "]", 1)

(***************************************************************************)
(* json.loads on a token sequence.  The decoded value is represented by    *)
(* its compact text: the tokens of the document without the white space    *)
(* between them; string contents are kept as written (the alphabet has one *)
(* spelling for every character of a string).                              *)
(***************************************************************************)
Parsed(next, canon) == [ok |-> TRUE, next |-> next, canon |-> canon]

NotParsed == [ok |-> FALSE, next |-> 0, canon |-> <<>>]

\* the index of the quote that closes a string whose content starts at i
RECURSIVE string_end(_, _)
string_end(s, i) ==
    IF i > Len(s) THEN 0
    ELSE IF s[i] = Quote THEN i
    ELSE IF s[i] = Backslash
    THEN IF i < Len(s) /\ s[i + 1] \in {Quote, Backslash}
         THEN string_end(s, i + 2) ELSE 0
    ELSE string_end(s, i + 1)

parse_string(s, i) ==
    LET e == string_end(s, i + 1)
    IN  IF e = 0 THEN NotParsed ELSE Parsed(e + 1, SubSeq(s, i, e))

RECURSIVE number_end(_, _)
number_end(s, i) ==
    IF i <= Len(s) /\ s[i] = "1" THEN number_end(s, i + 1) ELSE i

\* dict(pairs): a key that is repeated keeps the place of its first member
\* and the value of its last
RECURSIVE dict(_)
dict(pairs) ==
    IF pairs = <<>> THEN <<>>
    ELSE LET d == dict(SubSeq(pairs, 1, Len(pairs) - 1))
             p == pairs[Len(pairs)]
         IN  IF \E i \in 1..Len(d) : d[i].key = p.key
             THEN [i \in 1..Len(d) |-> IF d[i].key = p.key THEN p ELSE d[i]]
             ELSE Append(d, p)

\* the compact text of the members of a dict that is not empty
RECURSIVE members_text(_)
members_text(d) ==
    IF Len(d) = 1 THEN d[1].key \o <<":">> \o d[1].value
    ELSE d[1].key \o <<":">> \o d[1].value \o <<",">> \o members_text(Tail(d))

Members(next, pairs) == [ok |-> TRUE, next |-> next, pairs |-> pairs]

RECURSIVE parse_value(_, _)
RECURSIVE parse_members(_, _)
RECURSIVE parse_elements(_, _)

\* the (key, value) pairs of an object from the key at index i to the
\* closing brace
parse_members(s, i) ==
    IF i > Len(s) \/ s[i] # Quote THEN NotParsed
    ELSE LET k == parse_string(s, i)
             c == SkipSpace(s, k.next)
             v == parse_value(s, c + 1)
             e == SkipSpace(s, v.next)
             r == parse_members(s, SkipSpace(s, e + 1))
             pair == [key |-> k.canon, value |-> v.canon]
         IN  IF ~k.ok \/ c > Len(s) \/ s[c] # ":" THEN NotParsed
             ELSE IF ~v.ok \/ e > Len(s) THEN NotParsed
             ELSE IF s[e] = "}" THEN Members(e + 1, <<pair>>)
             ELSE IF s[e] = "," /\ r.ok THEN Members(r.next, <<pair>> \o r.pairs)
             ELSE NotParsed

\* the elements of an array from the value at index i to the closing bracket
parse_elements(s, i) ==
    LET v == parse_value(s, i)
        e == SkipSpace(s, v.next)
        r == parse_elements(s, e + 1)
    IN  IF ~v.ok \/ e > Len(s) THEN NotParsed
        ELSE IF s[e] = "]" THEN Parsed(e + 1, v.canon \o <<"]">>)
        ELSE IF s[e] = "," /\ r.ok
        THEN Parsed(r.next, v.canon \o <<",">> \o r.canon)
        ELSE NotParsed

parse_value(s, i0) ==
    LET i == SkipSpace(s, i0)
        j == SkipSpace(s, i + 1)
        m == parse_members(s, j)
        a == parse_elements(s, j)
    IN  IF i > Len(s) THEN NotParsed
        ELSE IF s[i] = Quote THEN parse_string(s, i)
        ELSE IF s[i] = "1" THEN Parsed(number_end(s, i), SubSeq(s, i, number_end(s, i) - 1))
        ELSE IF s[i] = "{"
        THEN IF j <= Len(s) /\ s[j] = "}" THEN Parsed(j + 1, <<"{", "}">>)
             ELSE IF m.ok
             THEN Parsed(m.next, <<"{">> \o members_text(dict(m.pairs)) \o <<"}">>)
             ELSE NotParsed
        ELSE IF s[i] = "["
        THEN IF j <= Len(s) /\ s[j] = "]" THEN Parsed(j + 1, <<"[", "]">>)
             ELSE IF a.ok THEN Parsed(a.next, <<"[">> \o a.canon)
             ELSE NotParsed
        ELSE NotParsed

\* json.loads(s): the whole text must be one value
json_loads(s) ==
    LET v == parse_value(s, 1)
    IN  IF v.ok /\ SkipSpace(s, v.next) > Len(s)
        THEN [ok |-> TRUE, value |-> v.canon]
        ELSE [ok |-> FALSE, value |-> <<>>]

Extracted(raised, msg, json_str, value) ==
    [raised |-> raised, msg |-> msg, json_str |-> json_str, value |-> value]

\* mutant: a scan without a closing brace is reported as a missing object
extract_json_OneKind(raw) ==
    LET result_str == strip_fences(raw)
        start_idx == find(result_str, "{")
        end_idx == closing_brace(result_str, start_idx, 0, FALSE, FALSE)
        json_str == SubSeq(result_str, start_idx, end_idx)
        parsed_data == json_loads(fix_commas(json_str))
    IN  IF start_idx = 0 \/ end_idx = 0
        THEN Extracted(TRUE, NoJsonFound, <<>>, <<>>)
        ELSE IF ~parsed_data.ok THEN Extracted(TRUE, NotValidJson, json_str, <<>>)
        ELSE Extracted(FALSE, "", json_str, parsed_data.value)

\* lines 294-343: the decoded object, or the ValueError raised on the way;
\* json_str is the text between the braces the scan selected
extract_json(raw) ==
    LET result_str == strip_fences(raw)
        start_idx == find(result_str, "{")
        end_idx == closing_brace(result_str, start_idx, 0, FALSE, FALSE)
        json_str == SubSeq(result_str, start_idx, end_idx)
        parsed_data == json_loads(fix_commas(json_str))
    IN  IF start_idx = 0 THEN Extracted(TRUE, NoJsonFound, <<>>, <<>>)
        ELSE IF end_idx = 0 THEN Extracted(TRUE, MalformedJson, <<>>, <<>>)
        ELSE IF ~parsed_data.ok THEN Extracted(TRUE, NotValidJson, json_str, <<>>)
        ELSE Extracted(FALSE, "", json_str, parsed_data.value)

\* s.rfind(c) + 1: the last index of c in s, 0 if there is none
rfind(s, c) ==
    IF \E i \in 1..Len(s) : s[i] = c
    THEN CHOOSE i \in 1..Len(s) : s[i] = c /\ \A j \in (i + 1)..Len(s) : s[j] # c
    ELSE 0

\* resume_analyst.py lines 230-242 (also job_discovery.py and
\* ranking_agent.py): re.search(r'\{[\s\S]*\}', s) matches from the first
\* opening brace to the last closing brace; the match is decoded as it is
search_json(result_str) ==
    LET start_idx == find(result_str, "{")
        end_idx == rfind(result_str, "}")
        json_str == SubSeq(result_str, start_idx, end_idx)
        parsed_data == json_loads(json_str)
    IN  IF start_idx = 0 \/ end_idx < start_idx
        THEN Extracted(TRUE, NoJsonFound, <<>>, <<>>)
        ELSE IF ~parsed_data.ok THEN Extracted(TRUE, NotValidJson, json_str, <<>>)
        ELSE Extracted(FALSE, "", json_str, parsed_data.value)

\* the outcome kind that scoring sees for a raw text
gen_kind(raw) ==
    LET x == extract_json(raw)
    IN  IF ~x.raised THEN "json"
        ELSE IF x.msg = NoJsonFound THEN "no_json"
        ELSE IF x.msg = MalformedJson THEN "malformed"
        ELSE "bad_json"

(***************************************************************************)
(* Profile extraction  (src/src/agents/resume_analyst.py)                  *)
(* gen = [kind, name, skills, has_skills, summary]: for kind "json" the    *)
(* decoded object names the candidate; has_skills tells whether it has the *)
(* key "skills" and skills is the length of that list; summary tells       *)
(* whether the required key "summary" is present.                          *)
(***************************************************************************)
CandidateProfile(name, skills) == [name |-> name, skills |-> skills]

parse_resume(gen) ==
    LET prefix == "Failed to create CandidateProfile from agent output"
    IN  \* result = crew.kickoff() is outside the try block
        IF gen.kind = "raise" THEN KickoffError
        \* re.search finds no "{...}"
        ELSE IF gen.kind = "no_json" THEN ValueError(Wrapped(prefix, NoJsonFound))
        ELSE IF gen.kind = "bad_json" THEN ValueError(<<NotValidJson>>)
        \* CandidateProfile(**parsed_data): summary is required
        ELSE IF ~gen.summary THEN ValueError(Wrapped(prefix, ValidationFailed))
        \* validate_skills_not_empty runs on a given value only
        ELSE IF gen.has_skills /\ gen.skills = 0
        THEN ValueError(Wrapped(prefix, ValidationFailed))
        \* skills: List[Skill] = Field(default_factory=list) is not validated
        ELSE IF ~gen.has_skills THEN Ok(CandidateProfile(gen.name, 0))
        ELSE Ok(CandidateProfile(gen.name, gen.skills))

(***************************************************************************)
(* Fit scoring  (src/src/agents/skill_matcher.py)                          *)
(* gen = [kind, output] is the outcome of crew.kickoff():                  *)
(*   "raise"      kickoff raised (outside the try block)                   *)
(*   "pydantic"   result.pydantic holds a validated SkillMatchOutput       *)
(*   "no_json"    the raw text has no "{"                                  *)
(*   "malformed"  the depth scan finds no closing brace                    *)
(*   "bad_json"   json.loads raises JSONDecodeError                        *)
(*   "json"       the raw text decodes to the object "output"              *)
(* output = [complete, overall_fit_score, skill_match_score,               *)
(* experience_match_score, recommendation, skill_matches]; complete is     *)
(* FALSE when a required key is absent.  recommendation stands for the     *)
(* copied fields strengths, gaps, recommendation and explanation.          *)
(* skill_matches lists the match_strength of each skill alignment, a float *)
(* counted in tenths (StrengthOne is 1.0).                                 *)
(***************************************************************************)
StrengthOne == 10

\* the recommendation labels that the task description asks the generator for
StrongMatch == "Strong Match - Recommend Interview"
GoodMatch == "Good Match - Consider for Interview"
ModerateMatch == "Moderate Match - Review Carefully"
WeakMatch == "Weak Match - Likely Not Suitable"

\* Field(ge=..., le=...) of the three scores and of every match_strength
ScoresInRange(o) ==
    /\ o.overall_fit_score >= 0 /\ o.overall_fit_score <= 100
    /\ o.skill_match_score >= 0 /\ o.skill_match_score <= 60
    /\ o.experience_match_score >= 0 /\ o.experience_match_score <= 30
    /\ \A i \in 1..Len(o.skill_matches) :
          o.skill_matches[i] >= 0 /\ o.skill_matches[i] <= StrengthOne

\* SkillMatchOutput(**parsed_data) succeeds
SkillMatchOutput(parsed_data) == parsed_data.complete /\ ScoresInRange(parsed_data)

JobMatchResult(candidate, job, output) ==
    [candidate_profile |-> candidate, job_posting |-> job,
     overall_fit_score |-> output.overall_fit_score,
     skill_match_score |-> output.skill_match_score,
     experience_match_score |-> output.experience_match_score,
     recommendation |-> output.recommendation,
     skill_matches |-> output.skill_matches]

\* mutant: an output that fails validation is scored with defaults
match_candidate_to_job_Default(candidate, job, gen) ==
    IF gen.kind = "raise" THEN KickoffError
    ELSE IF gen.kind \in {"json", "pydantic"} /\ SkillMatchOutput(gen.output)
    THEN Ok(JobMatchResult(candidate, job, gen.output))
    ELSE Ok(JobMatchResult(candidate, job,
                           [complete |-> TRUE, overall_fit_score |-> 50,
                            skill_match_score |-> 30,
                            experience_match_score |-> 15,
                            recommendation |-> ModerateMatch,
                            skill_matches |-> <<>>]))

\* mutant: the decoded output is stored without validating its ranges
match_candidate_to_job_Unchecked(candidate, job, gen) ==
    LET prefix == "Failed to create JobMatchResult"
    IN  IF gen.kind = "raise" THEN KickoffError
        ELSE IF gen.kind = "no_json" THEN ValueError(Wrapped(prefix, NoJsonFound))
        ELSE IF gen.kind = "malformed" THEN ValueError(Wrapped(prefix, MalformedJson))
        ELSE IF gen.kind = "bad_json" THEN ValueError(<<NotValidJson>>)
        ELSE IF gen.kind = "json" /\ ~gen.output.complete
        THEN ValueError(Wrapped(prefix, ValidationFailed))
        ELSE Ok(JobMatchResult(candidate, job, gen.output))

match_candidate_to_job(candidate, job, gen) ==
    LET prefix == "Failed to create JobMatchResult"
    IN  IF gen.kind = "raise" THEN KickoffError
        ELSE IF gen.kind = "no_json" THEN ValueError(Wrapped(prefix, NoJsonFound))
        ELSE IF gen.kind = "malformed" THEN ValueError(Wrapped(prefix, MalformedJson))
        ELSE IF gen.kind = "bad_json" THEN ValueError(<<NotValidJson>>)
        \* SkillMatchOutput(**parsed_data) raises ValidationError
        ELSE IF gen.kind = "json" /\ ~SkillMatchOutput(gen.output)
        THEN ValueError(Wrapped(prefix, ValidationFailed))
        \* JobMatchResult(...) validates the same ranges
        ELSE IF ~ScoresInRange(gen.output)
        THEN ValueError(Wrapped(prefix, ValidationFailed))
        ELSE Ok(JobMatchResult(candidate, job, gen.output))

(***************************************************************************)
(* Batch fit scoring  (match_candidate_to_jobs_batch)                      *)
(* gen = [kind, job_matches, batch_summary]: job_matches lists the         *)
(* returned matches, each an output extended with its tag job_index        *)
(* (0-based); batch_summary is FALSE when that required key is absent.     *)
(***************************************************************************)
\* BatchJobMatchResult: job_index: int = Field(ge=0) and the score fields
BatchJobMatchResult(m) == m.job_index >= 0 /\ SkillMatchOutput(m)

\* BatchSkillMatchOutput(**parsed_data) succeeds
BatchSkillMatchOutput(parsed_data) ==
    /\ parsed_data.batch_summary
    /\ \A i \in 1..Len(parsed_data.job_matches) :
          BatchJobMatchResult(parsed_data.job_matches[i])

RECURSIVE batch_results(_, _, _, _)
\* mutant: the tag counts from the end of the list
batch_results_OneBased(candidate, jobs, matches, i) ==
    IF i > Len(matches) THEN <<>>
    ELSE LET job_match == matches[i]
             job_index == job_match.job_index
             rest == batch_results(candidate, jobs, matches, i + 1)
         IN  IF job_index < 0 \/ job_index >= Len(jobs) THEN rest
             ELSE <<JobMatchResult(candidate, jobs[Len(jobs) - job_index],
                                   job_match)>> \o rest

\* the for loop over batch_output.matches from its i-th iteration on
batch_results(candidate, jobs, matches, i) ==
    IF i > Len(matches) THEN <<>>
    ELSE LET job_match == matches[i]
             job_index == job_match.job_index
             rest == batch_results(candidate, jobs, matches, i + 1)
         IN  \* invalid job_index: warn and skip
             IF job_index < 0 \/ job_index >= Len(jobs) THEN rest
             ELSE <<JobMatchResult(candidate, jobs[job_index + 1],
                                   job_match)>> \o rest

match_candidate_to_jobs_batch(candidate, jobs, gen) ==
    LET prefix == "Failed to create JobMatchResult from batch"
    IN  \* if not jobs: return []
        IF jobs = <<>> THEN Ok(<<>>)
        ELSE IF gen.kind = "raise" THEN KickoffError
        ELSE IF gen.kind = "no_json" THEN ValueError(Wrapped(prefix, NoJsonFound))
        ELSE IF gen.kind = "malformed" THEN ValueError(Wrapped(prefix, MalformedJson))
        ELSE IF gen.kind = "bad_json" THEN ValueError(<<NotValidJson>>)
        \* BatchSkillMatchOutput(**parsed_data) raises ValidationError
        ELSE IF gen.kind = "json" /\ ~BatchSkillMatchOutput(gen)
        THEN ValueError(Wrapped(prefix, ValidationFailed))
        \* JobMatchResult(...) validates the score ranges of a used match
        ELSE IF \E i \in 1..Len(gen.job_matches) :
                   /\ gen.job_matches[i].job_index >= 0
                   /\ gen.job_matches[i].job_index < Len(jobs)
                   /\ ~ScoresInRange(gen.job_matches[i])
        THEN ValueError(Wrapped(prefix, ValidationFailed))
        ELSE Ok(batch_results(candidate, jobs, gen.job_matches, 1))

(***************************************************************************)
(* Strategic ranking  (src/src/agents/ranking_agent.py)                    *)
(* A report is a Python dict: keys is the set of keys present; the fields  *)
(* of absent keys hold placeholders.  job_title and company of an entry    *)
(* are represented by the posting's job_id.                                *)
(* gen = [kind, dict]: for kind "json", dict is the parsed object.         *)
(***************************************************************************)
ReportKeys == {"ranked_jobs", "overall_strategy", "top_recommendation"}

Dict(keys, ranked_jobs, strategy, top) ==
    [keys |-> keys, ranked_jobs |-> ranked_jobs,
     overall_strategy |-> strategy, top_recommendation |-> top]

RankedJob(rank, job, tier, score, action) ==
    [rank |-> rank, job_id |-> job.job_id, tier |-> tier,
     final_score |-> score, action_recommendation |-> action]

\* sorted(match_results, key=overall_fit_score, reverse=True): stable
\* mutant: an input is placed before the inputs of equal score
InsertByScore_Unstable(x, s) ==
    LET k == Cardinality({i \in 1..Len(s) :
                            s[i].overall_fit_score > x.overall_fit_score})
    IN  SubSeq(s, 1, k) \o <<x>> \o SubSeq(s, k + 1, Len(s))

InsertByScore(x, s) ==
    LET k == Cardinality({i \in 1..Len(s) :
                            s[i].overall_fit_score >= x.overall_fit_score})
    IN  SubSeq(s, 1, k) \o <<x>> \o SubSeq(s, k + 1, Len(s))

RECURSIVE SortedByScoreDesc(_)
SortedByScoreDesc(s) ==
    IF s = <<>> THEN <<>>
    ELSE InsertByScore(s[Len(s)], SortedByScoreDesc(SubSeq(s, 1, Len(s) - 1)))

\* mutant: a score of exactly 50 falls into the last tier
FallbackTier_Strict(score) ==
    IF score >= 75 THEN "TIER 1"
    ELSE IF score >= 60 THEN "TIER 2"
    ELSE IF score > 50 THEN "TIER 3"
    ELSE "TIER 4"

FallbackTier(score) ==
    IF score >= 75 THEN "TIER 1"
    ELSE IF score >= 60 THEN "TIER 2"
    ELSE IF score >= 50 THEN "TIER 3"
    ELSE "TIER 4"

FallbackAction(score) ==
    IF score >= 75 THEN "Apply immediately"
    ELSE IF score >= 60 THEN "Apply this week"
    ELSE IF score >= 50 THEN "Consider applying"
    ELSE "Keep as backup"

fallback_ranking(match_results) ==
    LET sorted_results == SortedByScoreDesc(match_results)
        ranked_jobs ==
            [i \in 1..Len(sorted_results) |->
                RankedJob(i, sorted_results[i].job_posting,
                          FallbackTier(sorted_results[i].overall_fit_score),
                          sorted_results[i].overall_fit_score,
                          FallbackAction(sorted_results[i].overall_fit_score))]
    IN  Dict(ReportKeys, ranked_jobs,
             "Jobs ranked by match score. Focus on highest scoring opportunities first.",
             [text |-> "Start with", job_id |-> ranked_jobs[1].job_id])

RankResult(raised, value, gen_calls) ==
    [raised |-> raised, value |-> value, gen_calls |-> gen_calls]

EmptyDict == Dict({}, <<>>, "", [text |-> "", job_id |-> NullId])

\* mutant: the generator is consulted for every input, also an empty one
rank_job_matches_NoShortcut(match_results, gen) ==
    IF gen.kind = "raise" THEN RankResult(TRUE, EmptyDict, 1)
    ELSE IF gen.kind = "json" THEN RankResult(FALSE, gen.dict, 1)
    ELSE IF match_results = <<>>
    THEN RankResult(FALSE,
            Dict(ReportKeys, <<>>, "No jobs to rank",
                 [text |-> "Search for more opportunities", job_id |-> NullId]), 1)
    ELSE RankResult(FALSE, fallback_ranking(match_results), 1)

\* mutant: a single input is tiered by the fallback thresholds
rank_job_matches_SingleByFallback(match_results, gen) ==
    IF match_results = <<>>
    THEN RankResult(FALSE,
            Dict(ReportKeys, <<>>, "No jobs to rank",
                 [text |-> "Search for more opportunities", job_id |-> NullId]), 0)
    ELSE IF Len(match_results) = 1
    THEN RankResult(FALSE, fallback_ranking(match_results), 0)
    ELSE IF gen.kind = "raise" THEN RankResult(TRUE, EmptyDict, 1)
    ELSE IF gen.kind = "json" THEN RankResult(FALSE, gen.dict, 1)
    ELSE RankResult(FALSE, fallback_ranking(match_results), 1)

rank_job_matches(match_results, gen) ==
    IF match_results = <<>>
    THEN RankResult(FALSE,
            Dict(ReportKeys, <<>>, "No jobs to rank",
                 [text |-> "Search for more opportunities", job_id |-> NullId]), 0)
    ELSE IF Len(match_results) = 1
    THEN LET job == match_results[1]
         IN  RankResult(FALSE,
                Dict(ReportKeys,
                     <<RankedJob(1, job.job_posting,
                                 IF job.overall_fit_score >= 70
                                 THEN "TIER 1" ELSE "TIER 2",
                                 job.overall_fit_score, "Apply immediately")>>,
                     "This is your primary opportunity - focus on a strong application",
                     [text |-> "Apply to", job_id |-> job.job_posting.job_id]), 0)
    \* result = crew.kickoff() is outside the try block
    ELSE IF gen.kind = "raise" THEN RankResult(TRUE, EmptyDict, 1)
    \* return parsed_data: the parsed object is returned as it is
    ELSE IF gen.kind = "json" THEN RankResult(FALSE, gen.dict, 1)
    \* no regex match / JSONDecodeError -> except -> _fallback_ranking
    ELSE RankResult(FALSE, fallback_ranking(match_results), 1)

(***************************************************************************)
(* Orchestrator  (src/src/core/job_search_crew.py)                         *)
(* The transitions are functions from the object's fields (self) and the   *)
(* collaborators' responses to an outcome [self, raised, gen_calls,        *)
(* failed, report]: the fields afterwards, whether the call raised, the    *)
(* number of text-generation calls it made, the number of stage calls that *)
(* failed and the report dict returned (by generate_report only).          *)
(***************************************************************************)
E(step, ev) == [step |-> step, ev |-> ev]

\* mutant: the log keeps only the newest entry
log_Overwrite(self, entry) == [self EXCEPT !.execution_log = <<entry>>]

log(self, entry) == [self EXCEPT !.execution_log = Append(@, entry)]

Outcome(self, raised, gen_calls, failed) ==
    [self |-> self, raised |-> raised, gen_calls |-> gen_calls, failed |-> failed,
     report |-> None]

\* analyze_resume from the return of crew.kickoff() in parse_resume on; s1
\* holds the fields while the call waits there, the entry 'Step 1/5' written
analyze_resume_after(s1, gen) ==
    LET r == parse_resume(gen)
    IN  IF r.raised
        THEN Outcome(log(s1, E(1, "fail")), TRUE, 1, 1)
        ELSE LET s2 == [s1 EXCEPT !.candidate_profile = Some(r.value)]
             IN  Outcome(log(log(log(s2, E(1, "ok")), E(1, "skills")),
                             E(1, "experience")), FALSE, 1, 0)

\* mutant: an extraction that failed is attempted a second time
analyze_resume_Retry(self, gen) ==
    LET s1 == log(self, E(1, "begin"))
        r == parse_resume(gen)
    IN  IF r.raised
        THEN Outcome(log(s1, E(1, "fail")), TRUE, 2, 1)
        ELSE LET s2 == [s1 EXCEPT !.candidate_profile = Some(r.value)]
             IN  Outcome(log(log(log(s2, E(1, "ok")), E(1, "skills")),
                             E(1, "experience")), FALSE, 1, 0)

analyze_resume(self, gen) ==
    analyze_resume_after(log(self, E(1, "begin")), gen)

\* find_jobs from the return of crew.kickoff() in discover_jobs on; s1 holds
\* the fields while the call waits there, the entry 'Step 2/5' written
find_jobs_after(s1, gen, api, num_jobs) ==
    LET r == discover_jobs(gen, api, num_jobs)
    IN  IF r.raised
        THEN Outcome(log(s1, E(2, "fail")), TRUE, 1, 1)
        ELSE Outcome(log([s1 EXCEPT !.discovered_jobs = r.value], E(2, "ok")),
                     FALSE, 1, 0)

\* mutant: the generator is consulted before the profile check
find_jobs_CheckLate(self, gen, api, num_jobs) ==
    LET s1 == log(self, E(2, "begin"))
        r == discover_jobs(gen, api, num_jobs)
    IN  IF self.candidate_profile = None \/ r.raised
        THEN Outcome(log(s1, E(2, "fail")), TRUE, 1, 1)
        ELSE Outcome(log([s1 EXCEPT !.discovered_jobs = r.value], E(2, "ok")),
                     FALSE, 1, 0)

\* mutant: discovery stores a profile trimmed to the skills it searched for
find_jobs_TrimProfile(self, gen, api, num_jobs) ==
    IF self.candidate_profile = None
    THEN Outcome(self, TRUE, 0, 0)
    ELSE LET s1 == log(self, E(2, "begin"))
             r == discover_jobs(gen, api, num_jobs)
             trimmed == CandidateProfile(self.candidate_profile[1].name, 0)
         IN  IF r.raised
             THEN Outcome(log(s1, E(2, "fail")), TRUE, 1, 1)
             ELSE Outcome(log([s1 EXCEPT !.discovered_jobs = r.value,
                                         !.candidate_profile = Some(trimmed)],
                              E(2, "ok")), FALSE, 1, 0)

find_jobs(self, gen, api, num_jobs) ==
    IF self.candidate_profile = None
    THEN Outcome(self, TRUE, 0, 0)
    ELSE find_jobs_after(log(self, E(2, "begin")), gen, api, num_jobs)

\* the i-th iteration of the for loop of match_all_jobs from the return of
\* crew.kickoff() in match_candidate_to_job on; s1 holds the fields while the
\* iteration waits there, the entry 'Matching job i/n' written
match_item(s1, gen, i) ==
    LET r == match_candidate_to_job(s1.candidate_profile[1],
                                    s1.discovered_jobs[i], gen)
    IN  IF r.raised
        THEN log(s1, E(3, "item_fail"))
        ELSE log([s1 EXCEPT !.job_matches = Append(@, r.value)], E(3, "item_ok"))

\* the for loop of match_all_jobs from its i-th iteration on
RECURSIVE match_loop(_, _, _)
match_loop(self, gens, i) ==
    IF i > Len(self.discovered_jobs) THEN self
    ELSE match_loop(match_item(log(self, E(3, "item")), gens[i], i), gens, i + 1)

\* match_all_jobs after its for loop, which left the fields s2
match_all_jobs_after(s2) ==
    LET n == Len(s2.discovered_jobs)
    IN  Outcome(log(s2, E(3, "ok")), FALSE, n, n - Len(s2.job_matches))

match_all_jobs(self, gens) ==
    IF self.candidate_profile = None THEN Outcome(self, TRUE, 0, 0)
    ELSE IF self.discovered_jobs = <<>> THEN Outcome(self, TRUE, 0, 0)
    ELSE LET s1 == log(self, E(3, "begin"))
         IN  match_all_jobs_after(
                 match_loop([s1 EXCEPT !.job_matches = <<>>], gens, 1))

\* rank_opportunities from its try block on, that is, with two matches or
\* more, from the return of crew.kickoff() in rank_job_matches on; s1 holds
\* the fields with the entry 'Step 4/5' written
rank_opportunities_after(s1, gen) ==
    LET r == rank_job_matches(s1.job_matches, gen)
    IN  IF r.raised
        THEN Outcome(log(s1, E(4, "fail")), TRUE, r.gen_calls, 1)
        ELSE Outcome(log([s1 EXCEPT !.ranking = Some(r.value)], E(4, "ok")),
                     FALSE, r.gen_calls, 0)

rank_opportunities(self, gen) ==
    IF self.job_matches = <<>> THEN Outcome(self, TRUE, 0, 0)
    ELSE rank_opportunities_after(log(self, E(4, "begin")), gen)

\* bool(x) of the three values tested by all([...])
Truthy(self) ==
    /\ self.candidate_profile # None
    /\ self.job_matches # <<>>
    /\ self.ranking # None
    /\ self.ranking[1].keys # {}

\* sum(m.overall_fit_score for m in matches[:n])
RECURSIVE sum_scores(_, _)
sum_scores(matches, n) ==
    IF n = 0 THEN 0 ELSE sum_scores(matches, n - 1) + matches[n].overall_fit_score

\* the float a / b, kept as the fraction
TrueDiv(a, b) == [num |-> a, den |-> b]

\* the report dict; execution_log is the list object of the instance itself
Report(self) ==
    [candidate |-> [name |-> self.candidate_profile[1].name,
                    skills_count |-> self.candidate_profile[1].skills],
     job_search |->
        [jobs_found |-> Len(self.discovered_jobs),
         jobs_matched |-> Len(self.job_matches),
         average_score |-> TrueDiv(sum_scores(self.job_matches,
                                              Len(self.job_matches)),
                                   Len(self.job_matches))],
     ranked_opportunities |-> self.ranking[1].ranked_jobs,
     recommendations |-> [top_pick |-> self.ranking[1].top_recommendation,
                          strategy |-> self.ranking[1].overall_strategy],
     execution_log |-> self.execution_log]

\* the report seen once the instance's list has become that of self
Aliased(report, self) ==
    IF report = None THEN None
    ELSE Some([report[1] EXCEPT !.execution_log = self.execution_log])

generate_report(self) ==
    LET s1 == log(self, E(5, "begin"))
        s2 == log(s1, E(5, "ok"))
    IN  IF ~Truthy(self) THEN Outcome(s1, TRUE, 0, 0)
        \* self.ranking["ranked_jobs"] etc. raise KeyError
        ELSE IF ~(ReportKeys \subseteq self.ranking[1].keys)
        THEN Outcome(s1, TRUE, 0, 0)
        ELSE [Outcome(s2, FALSE, 0, 0) EXCEPT
                 !.report = Aliased(Some(Report(s1)), s2)]

(***************************************************************************)
(* Collaborator responses explored with the orchestrator                   *)
(***************************************************************************)
FailKinds == {"raise", "no_json", "bad_json"}

ResumeGen(kind, name, has_skills, skills, summary) ==
    [kind |-> kind, name |-> name, has_skills |-> has_skills,
     skills |-> skills, summary |-> summary]

ResumeGens ==
    {ResumeGen(k, "", FALSE, 0, FALSE) : k \in FailKinds}
    \cup {ResumeGen("json", n, TRUE, k, TRUE) : n \in {"Ada", "Bob"}, k \in 0..1}
    \cup {ResumeGen("json", "Ada", FALSE, 0, TRUE),
          ResumeGen("json", "Ada", TRUE, 1, FALSE)}

Entry(has_id, job_id) == [has_id |-> has_id, job_id |-> job_id]

CrewDiscoveryGens ==
    {[kind |-> k, recommended |-> <<>>] : k \in FailKinds \cup {"json"}}
    \cup {[kind |-> "json", recommended |-> <<Entry(TRUE, 1)>>]}

CrewApis ==
    {[ok |-> FALSE, data |-> <<>>]}
    \cup {[ok |-> TRUE, data |-> d] : d \in {<<>>, <<1>>, <<2, 1>>, <<NullId, 2>>}}

CrewNumJobs == {1, 2}

Output(complete, overall, skill, experience, recommendation) ==
    [complete |-> complete, overall_fit_score |-> overall,
     skill_match_score |-> skill, experience_match_score |-> experience,
     recommendation |-> recommendation, skill_matches |-> <<>>]

\* the output o with the given match strengths of its skill alignments
WithSkills(o, strengths) == [o EXCEPT !.skill_matches = strengths]

NoOutput == Output(FALSE, 0, 0, 0, "")

ScoreGens ==
    {[kind |-> k, output |-> NoOutput] : k \in FailKinds}
    \cup {[kind |-> "json", output |-> Output(TRUE, x, 30, 15, GoodMatch)] :
            x \in {45, 80, 120}}
    \cup {[kind |-> "json", output |-> o] :
            o \in {Output(TRUE, 80, 61, 15, GoodMatch),
                   Output(TRUE, 80, 30, 31, GoodMatch),
                   WithSkills(Output(TRUE, 80, 30, 15, GoodMatch),
                              <<5, StrengthOne + 1>>)}}

GenDicts ==
    {Dict(k, <<>>, "", [text |-> "", job_id |-> NullId]) :
        k \in {{}, {"other"}, {"ranked_jobs", "other"}, ReportKeys}}

RankGens ==
    {[kind |-> k, dict |-> EmptyDict] : k \in FailKinds}
    \cup {[kind |-> "json", dict |-> d] : d \in GenDicts}

(***************************************************************************)
(* State of a new JobSearchCrew  (__init__)                                *)
(***************************************************************************)
NoRun == [status |-> "none", stages |-> <<>>, start |-> 0, num_jobs |-> 0]
NoLast == [op |-> "none", raised |-> FALSE, gen_calls |-> 0, failed |-> 0,
           report |-> None]
NoCall == [fn |-> "none"]
NoRet == [done |-> FALSE, raised |-> FALSE, value |-> <<>>]
NoCrews == <<>>
NoSt == <<>>

CrewInit ==
    /\ candidate_profile = None
    /\ discovered_jobs = <<>>
    /\ job_matches = <<>>
    /\ ranking = None
    /\ execution_log = <<>>
    /\ pc = "idle"
    /\ run = NoRun
    /\ last = NoLast
    /\ calls = 0

Init ==
    /\ CrewInit
    /\ call = NoCall
    /\ ret = NoRet
    /\ crews = NoCrews
    /\ st = NoSt

Self ==
    [candidate_profile |-> candidate_profile, discovered_jobs |-> discovered_jobs,
     job_matches |-> job_matches, ranking |-> ranking,
     execution_log |-> execution_log]

Apply(self) ==
    /\ candidate_profile' = self.candidate_profile
    /\ discovered_jobs' = self.discovered_jobs
    /\ job_matches' = self.job_matches
    /\ ranking' = self.ranking
    /\ execution_log' = self.execution_log

Invocation(op, o) ==
    [op |-> op, raised |-> o.raised, gen_calls |-> o.gen_calls, failed |-> o.failed,
     report |-> o.report]

\* a caller invokes one transition on the instance
Direct(op, o) ==
    /\ Apply(o.self)
    /\ last' = Invocation(op, o)
    /\ calls' = calls + 1
    /\ UNCHANGED <<pc, run, call, ret, crews, st>>

\* the methods are called one at a time: a call is made when no call is in
\* progress
CanCall == pc = "idle"

AnalyzeResume ==
    /\ CanCall
    /\ calls < MaxCalls
    /\ \E gen \in ResumeGens : Direct("analyze_resume", analyze_resume(Self, gen))

FindJobs ==
    /\ CanCall
    /\ calls < MaxCalls
    /\ \E gen \in CrewDiscoveryGens, api \in CrewApis, n \in CrewNumJobs :
          Direct("find_jobs", find_jobs(Self, gen, api, n))

MatchAllJobs ==
    /\ CanCall
    /\ calls < MaxCalls
    /\ \E gens \in [1..Len(discovered_jobs) -> ScoreGens] :
          Direct("match_all_jobs", match_all_jobs(Self, gens))

RankOpportunities ==
    /\ CanCall
    /\ calls < MaxCalls
    /\ \E gen \in RankGens :
          Direct("rank_opportunities", rank_opportunities(Self, gen))

GenerateReport ==
    /\ CanCall
    /\ calls < MaxCalls
    /\ Direct("generate_report", generate_report(Self))

(***************************************************************************)
(* run_full_pipeline: the three banner entries, then one step per stage    *)
(* call inside the try block; the except branch (log "Pipeline failed",    *)
(* re-raise) is part of the step whose stage call raised.                  *)
(***************************************************************************)
RunFullPipeline ==
    /\ CanCall
    /\ calls < MaxCalls
    /\ \E n \in CrewNumJobs :
          run' = [status |-> "running", stages |-> <<>>,
                  start |-> Len(execution_log), num_jobs |-> n]
    /\ Apply(log(log(log(Self, E(0, "rule")), E(0, "start")), E(0, "rule")))
    /\ pc' = "analyze"
    /\ last' = [op |-> "run_full_pipeline", raised |-> FALSE,
                gen_calls |-> 0, failed |-> 0, report |-> None]
    /\ calls' = calls + 1
    /\ UNCHANGED <<call, ret, crews, st>>

Stage(op, o) == [op |-> op, raised |-> o.raised, gen_calls |-> o.gen_calls]

\* mutant: the except branch logs the failure and carries on
PipelineStep_Continue(op, o, next) ==
    /\ last' = Invocation(op, o)
    /\ run' = [run EXCEPT !.stages = Append(@, Stage(op, o))]
    /\ Apply(IF o.raised THEN log(o.self, E(0, "fail")) ELSE o.self)
    /\ pc' = next
    /\ UNCHANGED <<calls, call, ret, crews, st>>

PipelineStep(op, o, next) ==
    /\ last' = Invocation(op, o)
    /\ IF o.raised
       THEN /\ Apply(log(o.self, E(0, "fail")))
            /\ pc' = "idle"
            /\ run' = [run EXCEPT !.status = "raised",
                                  !.stages = Append(@, Stage(op, o))]
       ELSE /\ Apply(o.self)
            /\ pc' = next
            /\ run' = [run EXCEPT !.stages = Append(@, Stage(op, o))]
    /\ UNCHANGED <<calls, call, ret, crews, st>>

\* the outcome of the stage call made at position pc of the run
stage_call(c, r) ==
    CASE c.pc = "analyze" -> analyze_resume(c.self, r.gen)
      [] c.pc = "find" -> find_jobs(c.self, r.gen, r.api, c.num_jobs)
      [] c.pc = "match" -> match_all_jobs(c.self, r.gens)
      [] c.pc = "rank" -> rank_opportunities(c.self, r.gen)
      [] c.pc = "report" -> generate_report(c.self)

next_pc(at) ==
    CASE at = "analyze" -> "find"
      [] at = "find" -> "match"
      [] at = "match" -> "rank"
      [] at = "rank" -> "report"
      [] at = "report" -> "returned"

StageOp(at) ==
    CASE at = "analyze" -> "analyze_resume"
      [] at = "find" -> "find_jobs"
      [] at = "match" -> "match_all_jobs"
      [] at = "rank" -> "rank_opportunities"
      [] at = "report" -> "generate_report"

\* the collaborator responses that the stage call at position pc may receive
StageResponses ==
    CASE pc = "analyze" -> {[gen |-> g] : g \in ResumeGens}
      [] pc = "find" ->
            {[gen |-> g, api |-> a] : g \in CrewDiscoveryGens, a \in CrewApis}
      [] pc = "match" ->
            {[gens |-> g] : g \in [1..Len(discovered_jobs) -> ScoreGens]}
      [] pc = "rank" -> {[gen |-> g] : g \in RankGens}
      [] pc = "report" -> {[gen |-> "none"]}
      [] OTHER -> {}

\* the return of run_full_pipeline: the report, after the closing banner
PipelineReturn(o) ==
    LET stages == Append(run.stages, Stage("generate_report", o))
        closed == log(log(log(o.self, E(0, "rule")), E(0, "done")),
                      E(0, "rule"))
    IN  /\ pc' = "idle"
        /\ Apply(closed)
        /\ last' = [Invocation("generate_report", o) EXCEPT
                       !.report = Aliased(o.report, closed)]
        /\ run' = [run EXCEPT !.status = "returned", !.stages = stages]
        /\ UNCHANGED <<calls, call, ret, crews, st>>

\* the next stage call of the run_full_pipeline call in progress
PipelineStage ==
    /\ pc # "idle"
    /\ \E r \in StageResponses :
          LET o == stage_call([self |-> Self, pc |-> pc,
                               num_jobs |-> run.num_jobs], r)
          IN  IF pc = "report" /\ ~o.raised
              THEN PipelineReturn(o)
              ELSE PipelineStep(StageOp(pc), o, next_pc(pc))

\* the texts that the methods of the class write to the trace
MethodEntries ==
    {E(0, ev) : ev \in {"rule", "start", "done", "fail"}}
    \cup {E(1, ev) : ev \in {"begin", "ok", "skills", "experience", "fail"}}
    \cup {E(2, ev) : ev \in {"begin", "ok", "fail"}}
    \cup {E(3, ev) : ev \in {"begin", "item", "item_ok", "item_fail", "ok"}}
    \cup {E(4, ev) : ev \in {"begin", "ok", "fail"}}
    \cup {E(5, ev) : ev \in {"begin", "ok"}}

\* a caller's message for the public method log: any text, one of its own
\* or the text of any entry that a method writes
ClientEntries == {E(-1, "other")} \cup MethodEntries

\* crew.log(message) called by a client
Log ==
    /\ CanCall
    /\ calls < MaxCalls
    /\ \E entry \in ClientEntries :
          Direct("log", Outcome(log(Self, entry), FALSE, 0, 0))

Next ==
    \/ AnalyzeResume
    \/ FindJobs
    \/ MatchAllJobs
    \/ RankOpportunities
    \/ GenerateReport
    \/ Log
    \/ RunFullPipeline
    \/ PipelineStage

Spec == Init /\ [][Next]_vars

(***************************************************************************)
(* Pure-function specifications: Init draws the arguments, the action      *)
(* applies the function once.                                              *)
(***************************************************************************)
JobIds == 1..MaxJobId

DiscoveryGens ==
    {[kind |-> k, recommended |-> <<>>] :
        k \in FailKinds \cup {"json_nonlist"}}
    \cup {[kind |-> "json", recommended |-> r] :
            r \in SeqsUpTo({Entry(TRUE, j) : j \in JobIds}
                           \cup {Entry(FALSE, NullId)}, MaxRecLen)}

\* two responses longer than the program's search limit
LongData == {[i \in 1..(SearchLimit + 1) |-> 1 + (i % MaxJobId)],
             [i \in 1..(SearchLimit + 2) |-> IF i = 2 THEN NullId ELSE 1 + (i % 2)]}

Apis ==
    {[ok |-> FALSE, data |-> <<>>]}
    \cup {[ok |-> TRUE, data |-> d] :
            d \in SeqsUpTo(JobIds \cup {NullId}, MaxApiLen) \cup LongData}

NumJobsArgs == (-1)..MaxNumJobs

InitDiscover ==
    /\ CrewInit
    /\ call \in {[fn |-> "discover_jobs", gen |-> g, api |-> a, num_jobs |-> n] :
                    g \in DiscoveryGens, a \in Apis, n \in NumJobsArgs}
    /\ ret = NoRet
    /\ crews = NoCrews
    /\ st = NoSt

DiscoverJobs ==
    /\ ~ret.done
    /\ LET r == discover_jobs(call.gen, call.api, call.num_jobs)
       IN  ret' = [done |-> TRUE, raised |-> r.raised, value |-> r.value]
    /\ UNCHANGED <<crew_vars, call, crews, st>>

NextDiscover == DiscoverJobs

SpecDiscover == InitDiscover /\ [][NextDiscover]_vars

TheCandidate == CandidateProfile("Ada", 1)

\* scores on both sides of every tier threshold
RankScores == {40, 49, 50, 59, 60, 69, 70, 74, 75, 85}

\* scores that a second opportunity shares with the first
TieScores == {60, 75}

Scored(j, x) ==
    JobMatchResult(TheCandidate, JobPosting(j), Output(TRUE, x, 30, 15, GoodMatch))

MatchResults ==
    {Scored(1, x) : x \in RankScores} \cup {Scored(2, x) : x \in TieScores}

InitRank ==
    /\ CrewInit
    /\ call \in {[fn |-> "rank_job_matches", match_results |-> m, gen |-> g] :
                    m \in SeqsUpTo(MatchResults, MaxRankLen), g \in RankGens}
    /\ ret = NoRet
    /\ crews = NoCrews
    /\ st = NoSt

RankJobMatches ==
    /\ ~ret.done
    /\ LET r == rank_job_matches(call.match_results, call.gen)
       IN  ret' = [done |-> TRUE, raised |-> r.raised, value |-> r.value,
                   gen_calls |-> r.gen_calls]
    /\ UNCHANGED <<crew_vars, call, crews, st>>

NextRank == RankJobMatches

SpecRank == InitRank /\ [][NextRank]_vars

\* single and batch scoring applied to one generator outcome
Candidates == {TheCandidate, CandidateProfile("Bob", 2)}

Recommendations ==
    {StrongMatch, WeakMatch, "Apply"}

Strengths == {<<>>, <<0, StrengthOne>>, <<5, StrengthOne + 1>>, <<-1>>}

ScoreOutputs ==
    {WithSkills(Output(c, o, sk, e, r), ms) :
        c \in BOOLEAN, o \in {-1, 0, 45, 100, 120}, sk \in {30, 61},
        e \in {15, 31}, r \in Recommendations, ms \in Strengths}

ScoreFailKinds == {"raise", "no_json", "malformed", "bad_json"}

ScoringGens ==
    {[kind |-> k, output |-> NoOutput] : k \in ScoreFailKinds}
    \cup {[kind |-> "json", output |-> o] : o \in ScoreOutputs}
    \cup {[kind |-> "pydantic", output |-> o] :
            o \in {x \in ScoreOutputs : SkillMatchOutput(x)}}

Tagged(job_index, o) ==
    [job_index |-> job_index, complete |-> o.complete,
     overall_fit_score |-> o.overall_fit_score,
     skill_match_score |-> o.skill_match_score,
     experience_match_score |-> o.experience_match_score,
     recommendation |-> o.recommendation, skill_matches |-> o.skill_matches]

BatchMatches ==
    {Tagged(t, o) : t \in (-1)..MaxBatchJobs,
                    o \in {Output(TRUE, 45, 30, 15, WeakMatch),
                           Output(TRUE, 80, 50, 25, StrongMatch),
                           Output(TRUE, 120, 30, 15, StrongMatch),
                           Output(FALSE, 80, 50, 25, StrongMatch),
                           WithSkills(Output(TRUE, 80, 50, 25, StrongMatch),
                                      <<StrengthOne + 1>>)}}

BatchGens ==
    {[kind |-> k, job_matches |-> <<>>, batch_summary |-> FALSE] :
        k \in ScoreFailKinds}
    \cup {[kind |-> "json", job_matches |-> m, batch_summary |-> TRUE] :
            m \in SeqsUpTo(BatchMatches, MaxBatchLen)}
    \cup {[kind |-> "json", job_matches |-> <<m>>, batch_summary |-> FALSE] :
            m \in BatchMatches}
    \cup {[kind |-> "pydantic", job_matches |-> m, batch_summary |-> TRUE] :
            m \in SeqsUpTo({x \in BatchMatches : BatchJobMatchResult(x)},
                           MaxBatchLen)}

BatchJobs == SeqsUpTo({JobPosting(j) : j \in 1..2}, MaxBatchJobs)

InitScoring ==
    /\ CrewInit
    /\ call \in {[fn |-> "match_candidate_to_job", candidate |-> c,
                  job |-> JobPosting(j), gen |-> g] :
                    c \in Candidates, j \in 1..2, g \in ScoringGens}
                \cup {[fn |-> "match_candidate_to_jobs_batch",
                       candidate |-> TheCandidate, jobs |-> js, gen |-> g] :
                        js \in BatchJobs, g \in BatchGens}
    /\ ret = NoRet
    /\ crews = NoCrews
    /\ st = NoSt

Ret(r) == [done |-> TRUE, raised |-> r.raised, value |-> r.value,
           error |-> r.error, msg |-> r.msg]

MatchCandidateToJob ==
    /\ ~ret.done
    /\ call.fn = "match_candidate_to_job"
    /\ ret' = Ret(match_candidate_to_job(call.candidate, call.job, call.gen))
    /\ UNCHANGED <<crew_vars, call, crews, st>>

MatchCandidateToJobsBatch ==
    /\ ~ret.done
    /\ call.fn = "match_candidate_to_jobs_batch"
    /\ ret' = Ret(match_candidate_to_jobs_batch(call.candidate, call.jobs, call.gen))
    /\ UNCHANGED <<crew_vars, call, crews, st>>

NextScoring == MatchCandidateToJob \/ MatchCandidateToJobsBatch

SpecScoring == InitScoring /\ [][NextScoring]_vars

\* parse_resume applied to one generator outcome, then the orchestrator's
\* analyze_resume on the same outcome, then find_jobs
MaxSkills == 4

ParseGens ==
    {ResumeGen(k, "", FALSE, 0, FALSE) : k \in FailKinds}
    \cup {ResumeGen("json", n, TRUE, k, sm) :
            n \in {"Ada", "Bob"}, k \in 0..MaxSkills, sm \in BOOLEAN}
    \cup {ResumeGen("json", n, FALSE, 0, sm) : n \in {"Ada", "Bob"}, sm \in BOOLEAN}

InitResume ==
    /\ CrewInit
    /\ call \in {[fn |-> "parse_resume", gen |-> g] : g \in ParseGens}
    /\ ret = NoRet
    /\ crews = NoCrews
    /\ st = NoSt

ParseResume ==
    /\ ~ret.done
    /\ ret' = Ret(parse_resume(call.gen))
    /\ UNCHANGED <<crew_vars, call, crews, st>>

ResumeAnalyze ==
    /\ ret.done
    /\ last = NoLast
    /\ Direct("analyze_resume", analyze_resume(Self, call.gen))

ResumeFind ==
    /\ last.op = "analyze_resume"
    /\ \E gen \in CrewDiscoveryGens, api \in CrewApis, n \in CrewNumJobs :
          Direct("find_jobs", find_jobs(Self, gen, api, n))

NextResume == ParseResume \/ ResumeAnalyze \/ ResumeFind

SpecResume == InitResume /\ [][NextResume]_vars

\* the extraction applied to one raw text: prose, a JSON document, prose
StrAtoms ==
    {<<"a">>, <<"{">>, <<"}">>, <<",">>, <<"]">>, <<" ">>, <<Fence>>,
     <<Backslash, Quote>>, <<Backslash, Backslash>>}

\* the string contents made of at most n atoms
RECURSIVE Contents(_)
Contents(n) ==
    IF n = 0 THEN {<<>>}
    ELSE Contents(n - 1) \cup {c \o a : c \in Contents(n - 1), a \in StrAtoms}

Str(c) == <<Quote>> \o c \o <<Quote>>

Object(v) == <<"{", Quote, "a", Quote, ":">> \o v \o <<"}">>

StringBodies == {Object(Str(c)) : c \in Contents(MaxStrLen)}

OtherBodies ==
    {Object(<<"1">>),
     Object(<<"[", "1", ",", "1", "]">>),
     Object(Object(<<"1">>)),
     Object(<<"[", Quote, "}", Quote, "]">>),
     Object(<<"1", ",">>),
     Object(<<"[", "1", ",", " ", "]", ",", " ">>),
     Object(<<"[", "1", " ", "1", "]">>),
     <<"{", " ", Quote, "a", Quote, " ", ":", " ", "1", "1", " ", "}">>,
     <<"{", " ", "}">>,
     <<"{", "a", ":", "1", "}">>}

\* objects with a comma after their last member, the member being a string
TrailingBodies == {Object(Str(c) \o <<",">>) : c \in Contents(MaxStrLen - 1)}

\* documents cut short: every proper prefix, down to nothing
Truncated ==
    UNION {{SubSeq(b, 1, k) : k \in 0..(Len(b) - 1)} :
              b \in OtherBodies \cup {Object(Str(c)) : c \in Contents(1)}}

Bodies == StringBodies \cup OtherBodies \cup TrailingBodies \cup Truncated

Prefixes == {<<>>, <<"a", " ">>, <<Fence, "json", " ">>, <<Quote>>}

Suffixes == {<<>>, <<" ", "a">>, <<" ", Fence>>, <<" ", "}">>}

InitExtract ==
    /\ CrewInit
    /\ call \in {[fn |-> f, prefix |-> p, body |-> b, suffix |-> x] :
                    f \in {"extract_json", "search_json"},
                    p \in Prefixes, b \in Bodies, x \in Suffixes}
    /\ ret = NoRet
    /\ crews = NoCrews
    /\ st = NoSt

Raw == call.prefix \o call.body \o call.suffix

RetExtract(x) ==
    [done |-> TRUE, raised |-> x.raised, msg |-> x.msg,
     json_str |-> x.json_str, value |-> x.value]

ExtractJson ==
    /\ ~ret.done
    /\ call.fn = "extract_json"
    /\ ret' = RetExtract(extract_json(Raw))
    /\ UNCHANGED <<crew_vars, call, crews, st>>

SearchJson ==
    /\ ~ret.done
    /\ call.fn = "search_json"
    /\ ret' = RetExtract(search_json(Raw))
    /\ UNCHANGED <<crew_vars, call, crews, st>>

NextExtract == ExtractJson \/ SearchJson

SpecExtract == InitExtract /\ [][NextExtract]_vars

(***************************************************************************)
(* Two JobSearchCrew objects, each running run_full_pipeline once, in two  *)
(* threads (two sessions of the interface).  A run gives way to the other  *)
(* between two stage calls and where a stage call blocks: inside           *)
(* crew.kickoff(), which the stage reaches after it has written its        *)
(* 'Step k/5' entry and leaves before it stores its result.  (The search   *)
(* that follows the kickoff of discover_jobs sends no request, see         *)
(* JobSearchTool_run, and does not block.)                                 *)
(*                                                                         *)
(* The objects of the two threads live in one memory: crews is [objs,      *)
(* heap].  heap is the sequence of the list objects created so far; the    *)
(* address of a list is its position in heap, and a thread that appends to *)
(* a list changes it for every holder of its address.  objs[i] is         *)
(* [self, pc, num_jobs, responses, wait]: the attributes of the i-th       *)
(* JobSearchCrew, the position of its run, the num_jobs argument, the      *)
(* collaborator responses its run has consumed so far, one per step, and   *)
(* wait: 0 between two stage calls, k inside the k-th crew.kickoff() of    *)
(* the stage call at pc.  In self, discovered_jobs, job_matches and        *)
(* execution_log hold the address of a list; candidate_profile and ranking *)
(* hold a value, which the code replaces and never changes in place.  The  *)
(* module object settings is read by both threads and assigned by none.    *)
(***************************************************************************)
Instances == {1, 2}

\* the attributes of a JobSearchCrew after __init__, lists by value
NewCrew ==
    [self |-> [candidate_profile |-> None, discovered_jobs |-> <<>>,
               job_matches |-> <<>>, ranking |-> None, execution_log |-> <<>>],
     pc |-> "idle", num_jobs |-> 0, responses |-> <<>>, wait |-> 0]

PairResumeGens ==
    {ResumeGen("raise", "", FALSE, 0, FALSE)}
    \cup {ResumeGen("json", n, TRUE, 1, TRUE) : n \in {"Ada", "Bob"}}

PairApis == {[ok |-> TRUE, data |-> d] : d \in {<<1>>, <<2, 1>>}}

PairScoreGens ==
    {[kind |-> "raise", output |-> NoOutput]}
    \cup {[kind |-> "json", output |-> Output(TRUE, x, 30, 15, GoodMatch)] :
            x \in {45, 80}}

PairRankGens ==
    {[kind |-> "raise", dict |-> EmptyDict],
     [kind |-> "json",
      dict |-> Dict(ReportKeys, <<>>, "", [text |-> "", job_id |-> NullId])]}

\* a step in which the run consumes no response of a collaborator
NoKickoff == [gen |-> "none", api |-> "none", gens |-> <<>>]

\* whether the stage call at position pc reaches a crew.kickoff(): not when
\* a precondition raises, not for fewer than two matches to rank, never in
\* generate_report
Kicks(c) ==
    CASE c.pc = "analyze" -> TRUE
      [] c.pc = "find" -> c.self.candidate_profile # None
      [] c.pc = "match" ->
            c.self.candidate_profile # None /\ c.self.discovered_jobs # <<>>
      [] c.pc = "rank" -> Len(c.self.job_matches) >= 2
      [] OTHER -> FALSE

\* the responses that the next step of the run of c may receive
Responses(c) ==
    IF c.pc = "idle" THEN {[num_jobs |-> n] : n \in CrewNumJobs}
    ELSE IF c.pc \in {"returned", "raised"} THEN {}
    ELSE IF c.wait = 0 THEN {NoKickoff}
    ELSE CASE c.pc = "analyze" -> {[gen |-> g] : g \in PairResumeGens}
           [] c.pc = "find" ->
                 {[gen |-> [kind |-> "json", recommended |-> <<>>], api |-> a] :
                     a \in PairApis}
           [] c.pc = "match" -> {[gen |-> g] : g \in PairScoreGens}
           [] c.pc = "rank" -> {[gen |-> g] : g \in PairRankGens}

\* the object c after its stage call at pc ended with the outcome o: the run
\* is aborted, is over or goes on with the next stage
stage_end(c, o) ==
    IF o.raised
    THEN [c EXCEPT !.self = log(o.self, E(0, "fail")), !.pc = "raised",
                   !.wait = 0]
    ELSE IF c.pc = "report"
    THEN [c EXCEPT !.self = log(log(log(o.self, E(0, "rule")),
                                    E(0, "done")), E(0, "rule")),
                   !.pc = "returned", !.wait = 0]
    ELSE [c EXCEPT !.self = o.self, !.pc = next_pc(c.pc), !.wait = 0]

\* one step of run_full_pipeline on the object c (its lists by value) with
\* response r: the banner; a stage call up to its first crew.kickoff(), or
\* to its end when it reaches none; a stage call from the return of a
\* crew.kickoff() up to the next one or to its end
run_step(c, r) ==
    LET seen == Append(c.responses, r)
        waits(s, k) == [c EXCEPT !.self = s, !.wait = k, !.responses = seen]
        ended(o) == [stage_end(c, o) EXCEPT !.responses = seen]
    IN  IF c.pc = "idle"
        THEN [c EXCEPT !.self = log(log(log(c.self, E(0, "rule")),
                                        E(0, "start")), E(0, "rule")),
                       !.pc = "analyze", !.num_jobs = r.num_jobs,
                       !.responses = seen]
        ELSE IF c.wait = 0 /\ ~Kicks(c) THEN ended(stage_call(c, r))
        ELSE IF c.wait = 0
        THEN CASE c.pc = "analyze" -> waits(log(c.self, E(1, "begin")), 1)
               [] c.pc = "find" -> waits(log(c.self, E(2, "begin")), 1)
               [] c.pc = "match" ->
                     waits(log([log(c.self, E(3, "begin")) EXCEPT
                                   !.job_matches = <<>>], E(3, "item")), 1)
               [] c.pc = "rank" -> waits(log(c.self, E(4, "begin")), 1)
        ELSE CASE c.pc = "analyze" -> ended(analyze_resume_after(c.self, r.gen))
               [] c.pc = "find" ->
                     ended(find_jobs_after(c.self, r.gen, r.api, c.num_jobs))
               [] c.pc = "match" ->
                     LET s == match_item(c.self, r.gen, c.wait)
                     IN  IF c.wait < Len(c.self.discovered_jobs)
                         THEN waits(log(s, E(3, "item")), c.wait + 1)
                         ELSE ended(match_all_jobs_after(s))
               [] c.pc = "rank" ->
                     ended(rank_opportunities_after(c.self, r.gen))

\* c with the lists that its attributes refer to in the memory h
fields(c, h) ==
    [c EXCEPT !.self.discovered_jobs = h[@], !.self.job_matches = h[@],
              !.self.execution_log = h[@]]

\* mutant: execution_log is an attribute of the class, one list that every
\* instance refers to
JobSearchCrew_init_ClassLog(h) ==
    LET m == IF h = <<>> THEN <<<<>>>> ELSE h
    IN  [obj |-> [NewCrew EXCEPT !.self.discovered_jobs = Len(m) + 1,
                                 !.self.job_matches = Len(m) + 2,
                                 !.self.execution_log = 1],
         heap |-> m \o << <<>>, <<>> >>]

\* JobSearchCrew() in the memory h: __init__ creates three lists and binds
\* them to the new object
JobSearchCrew_init(h) ==
    [obj |-> [NewCrew EXCEPT !.self.discovered_jobs = Len(h) + 1,
                             !.self.job_matches = Len(h) + 2,
                             !.self.execution_log = Len(h) + 3],
     heap |-> h \o << <<>>, <<>>, <<>> >>]

\* the object o and the memory h after the step that took o, read as c, to
\* d.  self.execution_log.append and self.job_matches.append change the list
\* at the address the object holds; self.discovered_jobs = discover_jobs(...)
\* in find_jobs and self.job_matches = [] in match_all_jobs bind a new list
store(o, c, d, h) ==
    LET new_jobs == c.pc = "find" /\ c.wait > 0 /\ d.pc = "match"
        new_matches == c.pc = "match" /\ c.wait = 0 /\ Kicks(c)
        h1 == [h EXCEPT ![o.self.execution_log] = d.self.execution_log]
        h2 == IF new_matches THEN h1
              ELSE [h1 EXCEPT ![o.self.job_matches] = d.self.job_matches]
        h3 == IF new_jobs THEN Append(h2, d.self.discovered_jobs) ELSE h2
        h4 == IF new_matches THEN Append(h3, d.self.job_matches) ELSE h3
    IN  [obj |-> [d EXCEPT
                    !.self.discovered_jobs =
                        IF new_jobs THEN Len(h3) ELSE o.self.discovered_jobs,
                    !.self.job_matches =
                        IF new_matches THEN Len(h4) ELSE o.self.job_matches,
                    !.self.execution_log = o.self.execution_log],
         heap |-> h4]

InitPair ==
    /\ CrewInit
    /\ call = NoCall
    /\ ret = NoRet
    /\ LET a == JobSearchCrew_init(<<>>)
           b == JobSearchCrew_init(a.heap)
       IN  crews = [objs |-> <<a.obj, b.obj>>, heap |-> b.heap]
    /\ st = NoSt

\* the thread of instance i takes its next step: it reads the lists of its
\* object from the memory, runs up to the next point where it gives way and
\* has written its changes to the memory
PairStep(i) ==
    /\ \E r \in Responses(fields(crews.objs[i], crews.heap)) :
          LET o == crews.objs[i]
              c == fields(o, crews.heap)
              w == store(o, c, run_step(c, r), crews.heap)
          IN  crews' = [objs |-> [crews.objs EXCEPT ![i] = w.obj],
                        heap |-> w.heap]
    /\ UNCHANGED <<crew_vars, call, ret, st>>

NextPair == \E i \in Instances : PairStep(i)

SpecPair == InitPair /\ [][NextPair]_vars

(***************************************************************************)
(* Skill.normalize_category  (src/src/models/domain.py, lines 69-129)      *)
(* A string is a sequence of tokens [w, upper]: w is a word in lower case, *)
(* or one of the characters / - _, space, tab, line feed, carriage return  *)
(* and form feed, and upper tells that the token is written with           *)
(* upper-case letters.  A category name is given by its words:             *)
(* programming_language is <<"programming", "language">>.                  *)
(***************************************************************************)
Token(w, upper) == [w |-> w, upper |-> upper]

\* sep.join(words), written in upper case when upper is TRUE
RECURSIVE Joined(_, _, _)
Joined(words, sep, upper) ==
    IF words = <<>> THEN <<>>
    ELSE IF Len(words) = 1 THEN <<Token(words[1], upper)>>
    ELSE <<Token(words[1], upper), Token(sep, FALSE)>>
             \o Joined(Tail(words), sep, upper)

\* the values of the enumeration SkillCategory, by their words
SkillCategory ==
    {<<"programming", "language">>, <<"framework">>, <<"library">>,
     <<"tool">>, <<"platform">>, <<"soft", "skill">>,
     <<"domain", "knowledge">>, <<"database">>, <<"cloud">>, <<"devops">>,
     <<"methodology">>, <<"other">>}

valid_categories == {Joined(c, "_", FALSE) : c \in SkillCategory}

\* str.lower()
lower(v) == [i \in 1..Len(v) |-> Token(v[i].w, FALSE)]

\* str.strip(): the white space before and after is removed, the space as
\* well as the other white-space characters
RECURSIVE strip(_)
strip(v) ==
    LET isspace(t) == t.w \in {" ", "\t", "\n", "\r", "\f"}
    IN  IF v = <<>> THEN v
        ELSE IF isspace(v[1]) THEN strip(Tail(v))
        ELSE IF isspace(v[Len(v)]) THEN strip(SubSeq(v, 1, Len(v) - 1))
        ELSE v

\* str.replace(old, new) for one-character strings
replace(v, old, new) ==
    [i \in 1..Len(v) |-> IF v[i].w = old THEN Token(new, v[i].upper) ELSE v[i]]

\* the dict category_mapping, as pairs <<key, value>> given by their words
category_mapping ==
    {<<<<"ai", "machine", "learning">>, <<"domain", "knowledge">>>>,
     <<<<"machine", "learning">>, <<"domain", "knowledge">>>>,
     <<<<"artificial", "intelligence">>, <<"domain", "knowledge">>>>,
     <<<<"ai">>, <<"domain", "knowledge">>>>,
     <<<<"ml">>, <<"domain", "knowledge">>>>,
     <<<<"data", "science">>, <<"domain", "knowledge">>>>,
     <<<<"data", "analytics">>, <<"domain", "knowledge">>>>,
     <<<<"nlp">>, <<"domain", "knowledge">>>>,
     <<<<"computer", "vision">>, <<"domain", "knowledge">>>>,
     <<<<"framework", "library">>, <<"library">>>>,
     <<<<"frameworks", "libraries">>, <<"library">>>>,
     <<<<"web", "development">>, <<"framework">>>>,
     <<<<"frontend">>, <<"framework">>>>, <<<<"backend">>, <<"framework">>>>,
     <<<<"web", "framework">>, <<"framework">>>>,
     <<<<"tool", "platform">>, <<"tool">>>>,
     <<<<"tools", "platforms">>, <<"tool">>>>,
     <<<<"language">>, <<"programming", "language">>>>,
     <<<<"programming">>, <<"programming", "language">>>>,
     <<<<"api">>, <<"tool">>>>, <<<<"testing">>, <<"methodology">>>>,
     <<<<"agile">>, <<"methodology">>>>, <<<<"scrum">>, <<"methodology">>>>,
     <<<<"version", "control">>, <<"tool">>>>,
     <<<<"containerization">>, <<"devops">>>>,
     <<<<"orchestration">>, <<"devops">>>>, <<<<"ci", "cd">>, <<"devops">>>>,
     <<<<"infrastructure">>, <<"cloud">>>>}

normalized(v) == replace(replace(strip(lower(v)), "/", "_"), "-", "_")

\* mutant: a category that is not recognized is kept as it was normalized
normalize_category_Keep(v) ==
    IF v \in valid_categories THEN v
    ELSE IF normalized(v) \in valid_categories THEN normalized(v)
    ELSE IF \E m \in category_mapping : Joined(m[1], "_", FALSE) = normalized(v)
    THEN LET m == CHOOSE m \in category_mapping :
                     Joined(m[1], "_", FALSE) = normalized(v)
         IN  Joined(m[2], "_", FALSE)
    ELSE normalized(v)

normalize_category(v) ==
    IF v \in valid_categories THEN v
    ELSE IF normalized(v) \in valid_categories THEN normalized(v)
    ELSE IF \E m \in category_mapping : Joined(m[1], "_", FALSE) = normalized(v)
    THEN LET m == CHOOSE m \in category_mapping :
                     Joined(m[1], "_", FALSE) = normalized(v)
         IN  Joined(m[2], "_", FALSE)
    ELSE Joined(<<"other">>, "_", FALSE)

\* names that are neither a category nor a key of the mapping
UnknownNames == {<<>>, <<"blockchain">>, <<"machine">>, <<"soft", "skills">>}

CategoryNames ==
    SkillCategory \cup {m[1] : m \in category_mapping} \cup UnknownNames

\* a name written with the separator sep, in lower or upper case, with the
\* white-space characters pad before and after it
Written(name, sep, upper, pad) ==
    LET spaces == [i \in 1..Len(pad) |-> Token(pad[i], FALSE)]
    IN  spaces \o Joined(name, sep, upper) \o spaces

CategoryInputs ==
    {Written(name, sep, upper, pad) :
        name \in CategoryNames, sep \in {"_", "/", "-", " "},
        upper \in BOOLEAN, pad \in {<<>>, <<" ">>, <<"\t", "\n">>}}

InitCategory ==
    /\ CrewInit
    /\ call \in {[fn |-> "normalize_category", v |-> v] : v \in CategoryInputs}
    /\ ret = NoRet
    /\ crews = NoCrews
    /\ st = NoSt

\* Skill(category=v): the validator is applied to the string
NormalizeCategory ==
    /\ ~ret.done
    /\ ret' = [done |-> TRUE, raised |-> FALSE,
               value |-> normalize_category(call.v), times |-> 1]
    /\ UNCHANGED <<crew_vars, call, crews, st>>

\* Skill(category=s.category): the validator is applied to its own result
NormalizeAgain ==
    /\ ret.done
    /\ ret.times = 1
    /\ ret' = [done |-> TRUE, raised |-> FALSE,
               value |-> normalize_category(ret.value), times |-> 2,
               first |-> ret.value]
    /\ UNCHANGED <<crew_vars, call, crews, st>>

NextCategory == NormalizeCategory \/ NormalizeAgain

SpecCategory == InitCategory /\ [][NextCategory]_vars

(***************************************************************************)
(* The wizard  (src/src/ui/app.py)                                         *)
(* Streamlit runs the whole script on every interaction: a click is one    *)
(* run of the script in which that button reads True and the widgets hold  *)
(* what the user entered.  The variable st is [session_state, analysis]:   *)
(* session_state is st.session_state with its keys step, form_data and     *)
(* results; analysis records what the last run of the processing page did, *)
(* and ran tells that the page shows its error and the "Try Again" button. *)
(* A text is a sequence of characters, each character its code point       *)
(* (ord); form_data is a function from the keys stored so far to their     *)
(* values.                                                                 *)
(***************************************************************************)
\* num_jobs=5 of the find_jobs call
UiNumJobs == 5

\* the methods of the class JobSearchCrew
JobSearchCrewMethods ==
    {"log", "analyze_resume", "find_jobs", "match_all_jobs",
     "rank_opportunities", "generate_report", "run_full_pipeline",
     "get_execution_summary"}

\* the methods the processing page calls on its new JobSearchCrew, in order
UiCalls == <<"analyze_resume", "find_jobs", "match_skills",
             "rank_opportunities", "generate_report">>

\* str.strip() of a text: the leading and the trailing white space is
\* removed, and white space is every character ch with ch.isspace(): the
\* controls 9 to 13 (tab, line feed, vertical tab, form feed, carriage
\* return) and 28 to 31, the space, NEL, the no-break space and the spaces
\* and separators of Unicode
RECURSIVE text_strip(_)
text_strip(s) ==
    LET isspace(ch) ==
            ch \in (9..13) \cup (28..32) \cup {133, 160, 5760}
                   \cup (8192..8202) \cup {8232, 8233, 8239, 8287, 12288}
    IN  IF s = <<>> THEN s
        ELSE IF isspace(s[1]) THEN text_strip(Tail(s))
        ELSE IF isspace(s[Len(s)]) THEN text_strip(SubSeq(s, 1, Len(s) - 1))
        ELSE s

\* s.endswith(suffix)
endswith(s, suffix) ==
    /\ Len(suffix) <= Len(s)
    /\ SubSeq(s, Len(s) - Len(suffix) + 1, Len(s)) = suffix

\* d[k] = v
Put(d, k, v) == [i \in DOMAIN d \cup {k} |-> IF i = k THEN v ELSE d[i]]

NewSession == [step |-> 1, form_data |-> <<>>, results |-> None]

NotRun == [ran |-> FALSE, extracted |-> FALSE, stages |-> <<>>, error |-> "none"]

next_step(ss) == [ss EXCEPT !.step = @ + 1]

prev_step(ss) == IF ss.step > 1 THEN [ss EXCEPT !.step = @ - 1] ELSE ss

reset_form(ss) == [ss EXCEPT !.step = 1, !.form_data = <<>>, !.results = None]

\* the text "N/A" (a country is a text, a location preference an option)
NotAvailable == <<78, 47, 65>>

\* step 1: the name must not be blank
step1(ss, button, w) ==
    IF button = "step1_next" /\ text_strip(w.full_name) # <<>>
    THEN next_step([ss EXCEPT !.form_data = Put(@, "full_name", w.full_name)])
    ELSE ss

step2(ss, button, w) ==
    IF button = "step2_back" THEN prev_step(ss)
    ELSE IF button = "step2_next"
    THEN next_step([ss EXCEPT !.form_data =
                       Put(@, "experience_level", w.experience_level)])
    ELSE ss

\* step 3: the location radio of an on-site preference looks the stored
\* location preference up in its options, and list.index raises ValueError
\* for the stored "N/A": the script ends before the buttons; an on-site
\* preference needs a country; "x or 'N/A'" otherwise
step3(ss, button, w) ==
    IF /\ w.work_preference = "On-Site"
       /\ "location_preference" \in DOMAIN ss.form_data
       /\ ss.form_data["location_preference"] = "N/A"
    THEN ss
    ELSE IF button = "step3_back" THEN prev_step(ss)
    ELSE IF button = "step3_next"
    THEN IF w.work_preference = "On-Site" /\ w.country = <<>>
         THEN ss
         ELSE next_step([ss EXCEPT !.form_data =
                 Put(Put(Put(@, "work_preference", w.work_preference),
                         "location_preference",
                         IF w.location_preference = None
                         THEN "N/A" ELSE w.location_preference[1]),
                     "country",
                     IF w.country = <<>> THEN NotAvailable ELSE w.country)])
    ELSE ss

step4(ss, button, w) ==
    IF button = "step4_back" THEN prev_step(ss)
    ELSE IF button = "step4_next" /\ text_strip(w.target_role) # <<>>
    THEN next_step([ss EXCEPT !.form_data = Put(@, "target_role", w.target_role)])
    ELSE ss

\* mutant: the submit button shows the results page at once
step5_SkipAnalysis(ss, button, w) ==
    IF button = "step5_back" THEN prev_step(ss)
    ELSE IF button = "step5_submit" /\ w.uploaded_file # None
    THEN [ss EXCEPT !.form_data = Put(@, "resume_file", w.uploaded_file[1]),
                    !.step = 7]
    ELSE ss

\* step 5: the submit button needs an uploaded file
step5(ss, button, w) ==
    IF button = "step5_back" THEN prev_step(ss)
    ELSE IF button = "step5_submit" /\ w.uploaded_file # None
    THEN [ss EXCEPT !.form_data = Put(@, "resume_file", w.uploaded_file[1]),
                    !.step = 6]
    ELSE ss

\* crew.<name>(...): a name that is no attribute of the object raises
\* AttributeError; x holds the responses of the collaborators
method_call(self, name, x) ==
    IF name \notin JobSearchCrewMethods THEN Outcome(self, TRUE, 0, 0)
    ELSE CASE name = "analyze_resume" -> analyze_resume(self, x.resume_gen)
           [] name = "find_jobs" ->
                find_jobs(self, x.discovery_gen, x.api, UiNumJobs)
           [] name = "match_all_jobs" ->
                match_all_jobs(self, [i \in 1..Len(self.discovered_jobs) |->
                                         x.score_gens[i]])
           [] name = "rank_opportunities" -> rank_opportunities(self, x.rank_gen)
           [] name = "generate_report" -> generate_report(self)

\* the calls on crew from the i-th on: the outcome of the first call that
\* raises, or of the last call, with the calls made (o is the value of the
\* i-th call)
RECURSIVE crew_calls(_, _, _, _)
crew_calls(self, x, i, stages) ==
    CHOOSE c \in
        {LET made == Append(stages, [op |-> UiCalls[i], raised |-> o.raised])
         IN  IF o.raised \/ i = Len(UiCalls) THEN [o |-> o, stages |-> made]
             ELSE crew_calls(o.self, x, i + 1, made) :
            o \in {method_call(self, UiCalls[i], x)}} : TRUE

\* the try block of step 6: text extraction by the file name's suffix, the
\* calls on a new JobSearchCrew, then CandidateStorage
analysis(ss, x) ==
    LET resume_file == ss.form_data["resume_file"]
        readable == IF endswith(resume_file.name, <<46, 112, 100, 102>>)
                    THEN resume_file.content = "pdf"
                    ELSE resume_file.content = "docx"
        Seen(extracted, stages, error, report) ==
            [ran |-> TRUE, extracted |-> extracted, stages |-> stages,
             error |-> error, report |-> report]
    IN  IF ~readable THEN Seen(FALSE, <<>>, "extract", None)
        ELSE CHOOSE a \in
                {IF c.o.raised
                 THEN Seen(TRUE, c.stages,
                           IF c.stages[Len(c.stages)].op \in JobSearchCrewMethods
                           THEN "stage" ELSE "AttributeError", None)
                 \* CandidateStorage() raises
                 ELSE IF ~x.storage THEN Seen(TRUE, c.stages, "storage", None)
                 ELSE Seen(TRUE, c.stages, "none", c.o.report) :
                    c \in {crew_calls(NewCrew.self, x, 1, <<>>)}} : TRUE

\* step 6: on success the report is stored and the step becomes 7; the
\* except branch shows the error and the button that leads back to step 5
step6(s, button, x) ==
    CHOOSE t \in
        {LET seen == [ran |-> a.ran, extracted |-> a.extracted,
                      stages |-> a.stages, error |-> a.error]
         IN  IF a.error = "none"
             THEN [session_state |->
                      [s.session_state EXCEPT !.results = a.report, !.step = 7],
                   analysis |-> seen]
             ELSE IF button = "try_again"
             THEN [session_state |-> [s.session_state EXCEPT !.step = 5],
                   analysis |-> seen]
             ELSE [session_state |-> s.session_state, analysis |-> seen] :
            a \in {analysis(s.session_state, x)}} : TRUE

step7(ss, button) == IF button = "new_search" THEN reset_form(ss) ELSE ss

\* one run of the script: the if / elif chain over the step
script(s, button, w, x) ==
    LET ss == s.session_state
        form(t) == [session_state |-> t,
                    analysis |-> IF t.step = 6 THEN NotRun ELSE s.analysis]
    IN  CASE ss.step = 1 -> form(step1(ss, button, w))
          [] ss.step = 2 -> form(step2(ss, button, w))
          [] ss.step = 3 -> form(step3(ss, button, w))
          [] ss.step = 4 -> form(step4(ss, button, w))
          [] ss.step = 5 -> form(step5(ss, button, w))
          [] ss.step = 6 -> step6(s, button, x)
          [] ss.step = 7 -> form(step7(ss, button))
          [] OTHER -> s

\* the buttons the page shows
Buttons(s) ==
    CASE s.session_state.step = 1 -> {"step1_next"}
      [] s.session_state.step = 2 -> {"step2_back", "step2_next"}
      [] s.session_state.step = 3 -> {"step3_back", "step3_next"}
      [] s.session_state.step = 4 -> {"step4_back", "step4_next"}
      [] s.session_state.step = 5 -> {"step5_back", "step5_submit"}
      [] s.session_state.step = 6 -> IF s.analysis.ran THEN {"try_again"} ELSE {}
      [] s.session_state.step = 7 -> {"new_search"}
      [] OTHER -> {}

ExperienceOptions ==
    {"Recent Graduate (0-1 years)", "Entry Level (1-2 years)",
     "Mid Level (2-5 years)", "Senior (5-10 years)",
     "Lead/Principal (10+ years)"}

NoInput ==
    [full_name |-> <<>>, experience_level |-> "", work_preference |-> "",
     location_preference |-> None, country |-> <<>>, target_role |-> <<>>,
     uploaded_file |-> None]

\* the texts '', ' ', '\t', '\r\n', 'Q', ' QA ' and '\tQ A\n'
UiTexts ==
    {<<>>, <<32>>, <<9>>, <<13, 10>>, <<81>>, <<32, 81, 65, 32>>,
     <<9, 81, 32, 65, 10>>}

\* uploads named 'a.pdf' and 'a.docx'
UiFiles ==
    {[name |-> n, content |-> c] :
        n \in {<<97, 46, 112, 100, 102>>, <<97, 46, 100, 111, 99, 120>>},
        c \in {"pdf", "docx"}}

\* what the widgets of the page can hold when a button is clicked
Inputs(step) ==
    CASE step = 1 -> {[NoInput EXCEPT !.full_name = t] : t \in UiTexts}
      [] step = 2 ->
            {[NoInput EXCEPT !.experience_level = e] : e \in ExperienceOptions}
      [] step = 3 ->
            {[NoInput EXCEPT !.work_preference = p] : p \in {"Remote", "Hybrid"}}
            \cup {[NoInput EXCEPT !.work_preference = "On-Site",
                                  !.location_preference = Some(l),
                                  !.country = t] :
                    l \in {"Only my country", "Open to relocation"},
                    t \in {<<>>, <<81>>}}
      [] step = 4 -> {[NoInput EXCEPT !.target_role = t] : t \in UiTexts}
      [] step = 5 ->
            {NoInput} \cup {[NoInput EXCEPT !.uploaded_file = Some(f)] :
                               f \in UiFiles}
      [] OTHER -> {NoInput}

\* the collaborator responses of one run of the processing page
UiResponses ==
    [resume_gen : PairResumeGens,
     discovery_gen : {[kind |-> k, recommended |-> <<>>] : k \in {"raise", "json"}},
     api : PairApis,
     score_gens : {[i \in 1..2 |-> [kind |-> k, output |-> NoOutput]] :
                      k \in {"raise", "no_json"}}
                  \cup {[i \in 1..2 |->
                           [kind |-> "json",
                            output |-> Output(TRUE, 80, 30, 15, GoodMatch)]]},
     rank_gen : PairRankGens,
     storage : BOOLEAN]

NoResponse == CHOOSE x \in UiResponses : TRUE

InitWizard ==
    /\ CrewInit
    /\ call = NoCall
    /\ ret = NoRet
    /\ crews = NoCrews
    /\ st = [session_state |-> NewSession, analysis |-> NotRun]

\* the user clicks a button of the page
Click ==
    /\ \E button \in Buttons(st) :
          \E w \in Inputs(st.session_state.step) :
             \E x \in IF st.session_state.step = 6 THEN UiResponses
                      ELSE {NoResponse} :
                st' = script(st, button, w, x)
    /\ UNCHANGED <<crew_vars, call, ret, crews>>

\* the run of the script that follows the submit: the processing page
RunAnalysis ==
    /\ st.session_state.step = 6
    /\ ~st.analysis.ran
    /\ \E x \in UiResponses : st' = script(st, "none", NoInput, x)
    /\ UNCHANGED <<crew_vars, call, ret, crews>>

NextWizard == Click \/ RunAnalysis

SpecWizard == InitWizard /\ [][NextWizard]_vars

(***************************************************************************)
(* Claims                                                                  *)
(***************************************************************************)
Transitions == {"analyze_resume", "find_jobs", "match_all_jobs",
                "rank_opportunities", "generate_report"}

Contains(s, e) == \E i \in 1..Len(s) : s[i] = e

Count(s, e) == Cardinality({i \in 1..Len(s) : s[i] = e})

Rejected ==
    /\ last'.raised
    /\ last'.gen_calls = 0
    /\ UNCHANGED <<candidate_profile, discovered_jobs, job_matches, ranking>>

\* C1: a transition called without its prerequisite state (find_jobs without a
\* profile; match_all_jobs without a profile or with no opportunities;
\* rank_opportunities with no matches) raises without having made a
\* text-generation call and leaves candidate_profile, discovered_jobs,
\* job_matches and ranking unchanged.
C1_PreconditionFailsFast ==
    [][/\ (last'.op = "find_jobs" /\ candidate_profile = None) => Rejected
       /\ (last'.op = "match_all_jobs"
             /\ (candidate_profile = None \/ discovered_jobs = <<>>)) => Rejected
       /\ (last'.op = "rank_opportunities" /\ job_matches = <<>>) => Rejected]_vars

\* match_all_jobs was rejected on an instance that holds a profile and whose
\* find_jobs had returned an empty list of opportunities
C1_Witness ==
    /\ last.op = "match_all_jobs"
    /\ last.raised
    /\ last.gen_calls = 0
    /\ candidate_profile # None
    /\ discovered_jobs = <<>>
    /\ Contains(execution_log, E(2, "ok"))

\* C2: every invocation of a transition appends at least one entry to the
\* execution trace, also when its precondition rejects it.
C2_EveryInvocationLogs ==
    [][last'.op \in Transitions => Len(execution_log') > Len(execution_log)]_vars

\* C4: the trace before any step is a prefix of the trace after it.
C4_TraceAppendOnly ==
    [][IsPrefix(execution_log, execution_log')]_vars

\* a trace that holds the entries of two transitions, a message of a client
\* and the failure entry of a pipeline run
C4_Witness ==
    /\ Contains(execution_log, E(1, "ok"))
    /\ Contains(execution_log, E(2, "ok"))
    /\ Contains(execution_log, E(-1, "other"))
    /\ execution_log[Len(execution_log)] = E(0, "fail")
    /\ Len(execution_log) >= 10

StageOrder == <<"analyze_resume", "find_jobs", "match_all_jobs",
                "rank_opportunities", "generate_report">>

PcOrder == <<"analyze", "find", "match", "rank", "report">>

\* C5: the stages started by one run_full_pipeline call are, in order, a prefix
\* of analyze_resume, find_jobs, match_all_jobs, rank_opportunities,
\* generate_report; every stage but the last started one returned normally,
\* and the stage about to start is the one after those that returned.
C5_StagesInOrder ==
    /\ Len(run.stages) <= 5
    /\ \A i \in 1..Len(run.stages) : run.stages[i].op = StageOrder[i]
    /\ \A i \in 1..(Len(run.stages) - 1) : ~run.stages[i].raised
    /\ pc # "idle" =>
          /\ pc = PcOrder[Len(run.stages) + 1]
          /\ \A i \in 1..Len(run.stages) : ~run.stages[i].raised

\* a run whose first two stages returned and whose third stage, started after
\* them, raised: the run ended there
C5_Witness ==
    /\ run.status = "raised"
    /\ Len(run.stages) = 3
    /\ ~run.stages[1].raised
    /\ ~run.stages[2].raised
    /\ run.stages[3].op = "match_all_jobs"
    /\ run.stages[3].raised
    /\ pc = "idle"

\* the entries of the trace written since run_full_pipeline was entered
RunTrace == SubSeq(execution_log', run'.start + 1, Len(execution_log'))

\* C6: when run_full_pipeline raises, the trace holds the begin and success
\* entries of every stage that completed, the begin entry of the stage that
\* failed, and ends with the entry recording the pipeline failure.
C6_TracePopulatedOnAbort ==
    [][(run.status = "running" /\ run'.status = "raised") =>
          /\ \A i \in 1..Len(run'.stages) :
                /\ Contains(RunTrace, E(i, "begin"))
                /\ ~run'.stages[i].raised => Contains(RunTrace, E(i, "ok"))
          /\ execution_log'[Len(execution_log')] = E(0, "fail")]_vars

\* C7: for one or more match results and any text the generator returns,
\* rank_job_matches returns a report that has the keys ranked_jobs,
\* overall_strategy and top_recommendation.
C7_RankingAlwaysUsable ==
    (ret.done /\ call.match_results # <<>> /\ call.gen.kind # "raise") =>
        /\ ~ret.raised
        /\ ReportKeys \subseteq ret.value.keys

Unparseable(gen) ==
    \/ gen.kind \in {"no_json", "bad_json", "json_nonlist"}
    \/ /\ gen.kind = "json"
       /\ \E i \in 1..Len(gen.recommended) : ~gen.recommended[i].has_id

\* the first n results of the search collaborator: the postings made from the
\* records the tool returns for a search of n, error records left out
RawTop(api, n) ==
    LET records == JobSearchTool_run(api, n)
        usable == SelectSeq(records, LAMBDA r : ~r.error /\ r.job_id # NullId)
    IN  [i \in 1..Len(usable) |-> [job_id |-> usable[i].job_id]]

\* C8: discover_jobs never raises: in every case it returns a list, and when
\* the generator output has no JSON object, is invalid JSON or recommends
\* entries without an id, the list is the search collaborator's first N
\* results.
C8_DiscoveryNeverRaises ==
    ret.done =>
        /\ ~ret.raised
        /\ ret.value \in Seq([job_id : JobIds])
        /\ Unparseable(call.gen) => ret.value = RawTop(call.api, call.num_jobs)

RecommendedIds(gen) == {gen.recommended[i].job_id : i \in 1..Len(gen.recommended)}

IsSingle == call.fn = "match_candidate_to_job"

IsBatch == call.fn = "match_candidate_to_jobs_batch"

\* the scoring schema: every required key present, each score in its range
MeetsScoringSchema(o) ==
    /\ o.complete
    /\ o.overall_fit_score \in 0..100
    /\ o.skill_match_score \in 0..60
    /\ o.experience_match_score \in 0..30
    /\ \A i \in 1..Len(o.skill_matches) : o.skill_matches[i] \in 0..StrengthOne

\* the generator produced an output: it was called and did not raise
HasOutput ==
    /\ call.gen.kind # "raise"
    /\ IsBatch => call.jobs # <<>>

\* the output is schema-typed, or parses and is valid against the schema
Usable ==
    \/ call.gen.kind = "pydantic"
    \/ /\ call.gen.kind = "json"
       /\ IsSingle => MeetsScoringSchema(call.gen.output)
       /\ IsBatch =>
            /\ call.gen.batch_summary
            /\ \A i \in 1..Len(call.gen.job_matches) :
                  /\ call.gen.job_matches[i].job_index >= 0
                  /\ MeetsScoringSchema(call.gen.job_matches[i])

SameScores(r, o) ==
    /\ r.overall_fit_score = o.overall_fit_score
    /\ r.skill_match_score = o.skill_match_score
    /\ r.experience_match_score = o.experience_match_score

\* C11: single and batch scoring raise a ValueError whenever the generator
\* output is neither schema-typed nor parseable and valid against the scoring
\* schema, and every FitResult they return carries scores of the generator
\* output, never defaults.
C11_NoFallbackScores ==
    (ret.done /\ (IsSingle \/ IsBatch) /\ HasOutput) =>
        /\ ~Usable => (ret.raised /\ ret.error = "ValueError")
        /\ (~ret.raised /\ IsSingle) => SameScores(ret.value, call.gen.output)
        /\ (~ret.raised /\ IsBatch) =>
              \A i \in 1..Len(ret.value) :
                 \E k \in 1..Len(call.gen.job_matches) :
                    SameScores(ret.value[i], call.gen.job_matches[k])

\* a batch response that parses but lacks a required key of one match was
\* answered with a ValueError
C11_Witness ==
    /\ ret.done
    /\ IsBatch
    /\ call.jobs # <<>>
    /\ call.gen.kind = "json"
    /\ \E i \in 1..Len(call.gen.job_matches) :
          /\ ~call.gen.job_matches[i].complete
          /\ call.gen.job_matches[i].job_index = 0
    /\ ret.raised
    /\ ret.error = "ValueError"

InRange(m) == m.job_index >= 0 /\ m.job_index < Len(call.jobs)

\* the returned matches whose tag names an opportunity of the input list
Kept == SelectSeq(call.gen.job_matches, InRange)

\* C12: in batch scoring over N opportunities a match tagged outside [0, N)
\* is dropped without raising, the remaining matches are still returned, and
\* at most N FitResults are returned.
C12_OutOfRangeDropped ==
    (ret.done /\ IsBatch /\ call.gen.kind \in {"json", "pydantic"}
       /\ call.gen.batch_summary
       /\ \A i \in 1..Len(call.gen.job_matches) :
             MeetsScoringSchema(call.gen.job_matches[i])) =>
        /\ ~ret.raised
        /\ Len(ret.value) = Len(Kept)
        /\ Len(ret.value) <= Len(call.jobs)

\* C13: every FitResult batch scoring returns for a match tagged t, 0 <= t < N,
\* references the t-th opportunity of the input list (counting from 0) and
\* the input candidate, with the scores and the recommendation of that match.
C13_TagSelectsOpportunity ==
    (ret.done /\ IsBatch /\ ~ret.raised /\ call.jobs # <<>>) =>
        /\ Len(ret.value) = Len(Kept)
        /\ \A i \in 1..Len(ret.value) :
              /\ ret.value[i].job_posting = call.jobs[Kept[i].job_index + 1]
              /\ ret.value[i].candidate_profile = call.candidate
              /\ SameScores(ret.value[i], Kept[i])
              /\ ret.value[i].recommendation = Kept[i].recommendation

\* two different opportunities were scored by matches tagged 1 and then 0
C13_Witness ==
    /\ ret.done
    /\ IsBatch
    /\ ~ret.raised
    /\ Len(call.jobs) = 2
    /\ call.jobs[1] # call.jobs[2]
    /\ Len(ret.value) = 2
    /\ call.gen.job_matches[1].job_index = 1
    /\ call.gen.job_matches[2].job_index = 0
    /\ ret.value[1].job_posting = call.jobs[2]
    /\ ret.value[1].overall_fit_score # ret.value[2].overall_fit_score

\* C14: ranking zero inputs returns the empty report: no ranked entries and
\* the fixed advisory texts, and makes no generation call.
C14_EmptyInputEmptyReport ==
    (ret.done /\ call.match_results = <<>>) =>
        /\ ~ret.raised
        /\ ret.gen_calls = 0
        /\ ret.value.keys = {"ranked_jobs", "overall_strategy", "top_recommendation"}
        /\ ret.value.ranked_jobs = <<>>
        /\ ret.value.overall_strategy = "No jobs to rank"
        /\ ret.value.top_recommendation.text = "Search for more opportunities"

\* zero inputs were ranked while the generator was one that raises
C14_Witness ==
    /\ ret.done
    /\ call.match_results = <<>>
    /\ call.gen.kind = "raise"
    /\ ret.value.ranked_jobs = <<>>

\* C15: ranking exactly one input returns a report with one entry of rank 1
\* for that input, whose tier is "TIER 1" iff its overall_fit_score >= 70 and
\* "TIER 2" otherwise, and makes no generation call.
C15_SingleInputOneEntry ==
    (ret.done /\ Len(call.match_results) = 1) =>
        /\ ~ret.raised
        /\ ret.gen_calls = 0
        /\ Len(ret.value.ranked_jobs) = 1
        /\ LET e == ret.value.ranked_jobs[1]
               m == call.match_results[1]
           IN  /\ e.rank = 1
               /\ e.job_id = m.job_posting.job_id
               /\ e.final_score = m.overall_fit_score
               /\ e.tier = "TIER 1" <=> m.overall_fit_score >= 70
               /\ e.tier \in {"TIER 1", "TIER 2"}

\* one input scored 69 was ranked TIER 2 without a generation call, though the
\* generator would have returned a report
C15_Witness ==
    /\ ret.done
    /\ Len(call.match_results) = 1
    /\ call.match_results[1].overall_fit_score = 69
    /\ call.gen.kind = "json"
    /\ ret.value.ranked_jobs[1].tier = "TIER 2"

TierOf(x) ==
    CASE x >= 75 -> "TIER 1"
      [] x >= 60 /\ x < 75 -> "TIER 2"
      [] x >= 50 /\ x < 60 -> "TIER 3"
      [] x < 50 -> "TIER 4"

ActionOf(x) ==
    CASE x >= 75 -> "Apply immediately"
      [] x >= 60 /\ x < 75 -> "Apply this week"
      [] x >= 50 /\ x < 60 -> "Consider applying"
      [] x < 50 -> "Keep as backup"

\* the result lists exactly the inputs: a one-to-one correspondence of
\* positions that preserves opportunity and score
SameEntries(ranked_jobs, match_results) ==
    /\ Len(ranked_jobs) = Len(match_results)
    /\ \E f \in [1..Len(ranked_jobs) -> 1..Len(match_results)] :
          /\ \A i, j \in 1..Len(ranked_jobs) : i # j => f[i] # f[j]
          /\ \A i \in 1..Len(ranked_jobs) :
                /\ ranked_jobs[i].job_id = match_results[f[i]].job_posting.job_id
                /\ ranked_jobs[i].final_score = match_results[f[i]].overall_fit_score

\* C16: when the generator output for two or more inputs cannot be parsed,
\* the ranking lists the inputs by overall_fit_score descending with ranks
\* 1..n, tiers and actions by the thresholds 75 / 60 / 50, and the top
\* recommendation names the highest-scoring entry; scores 85, 60, 40 give
\* TIER 1, TIER 2, TIER 4.
C16_FallbackRanking ==
    (ret.done /\ Len(call.match_results) >= 2
       /\ call.gen.kind \in {"no_json", "bad_json"}) =>
        /\ ~ret.raised
        /\ LET r == ret.value.ranked_jobs
           IN  /\ SameEntries(r, call.match_results)
               /\ \A i \in 1..Len(r) :
                     /\ r[i].rank = i
                     /\ r[i].tier = TierOf(r[i].final_score)
                     /\ r[i].action_recommendation = ActionOf(r[i].final_score)
                     /\ i < Len(r) => r[i].final_score >= r[i + 1].final_score
               /\ ret.value.top_recommendation.job_id = r[1].job_id
               /\ \A i \in 1..Len(call.match_results) :
                     r[1].final_score >= call.match_results[i].overall_fit_score
               /\ (Len(r) = 3 /\ r[1].final_score = 85 /\ r[2].final_score = 60
                     /\ r[3].final_score = 40) =>
                     <<r[1].tier, r[2].tier, r[3].tier>> = <<"TIER 1", "TIER 2", "TIER 4">>

\* inputs scored 40, 85, 60, given out of order, came back as 85, 60, 40 in
\* tiers 1, 2 and 4 after an unparseable generator output
C16_Witness ==
    /\ ret.done
    /\ call.gen.kind = "no_json"
    /\ Len(call.match_results) = 3
    /\ call.match_results[1].overall_fit_score = 40
    /\ call.match_results[2].overall_fit_score = 85
    /\ call.match_results[3].overall_fit_score = 60
    /\ ret.value.ranked_jobs[1].tier = "TIER 1"
    /\ ret.value.ranked_jobs[2].tier = "TIER 2"
    /\ ret.value.ranked_jobs[3].tier = "TIER 4"

\* the generator output gives no usable profile: it holds no JSON object, is
\* not valid JSON, fails the schema, or yields zero skills
NoUsableProfile(gen) ==
    \/ gen.kind \in {"no_json", "bad_json"}
    \/ /\ gen.kind = "json"
       /\ \/ ~gen.summary
          \/ ~gen.has_skills
          \/ gen.skills = 0

\* C17: profile extraction has no fallback: when the generator output holds no
\* JSON object, is not valid JSON, fails schema validation or yields zero
\* skills, parse_resume raises a ValueError and produces no CandidateProfile,
\* the orchestrator's profile stays unset and find_jobs cannot proceed.
C17_NoProfileNoFallback ==
    (ret.done /\ NoUsableProfile(call.gen)) =>
        /\ ret.raised
        /\ ret.error = "ValueError"
        /\ candidate_profile = None
        /\ last.op = "find_jobs" => last.raised /\ last.gen_calls = 0

\* the text is one complete JSON object
WellFormedObject(b) == b # <<>> /\ b[1] = "{" /\ json_loads(b).ok

BraceFree(p) == \A i \in 1..Len(p) : p[i] \notin {"{", "}"}

\* a well-formed object with prose that holds no brace before and after it
ObjectInProse ==
    /\ WellFormedObject(call.body)
    /\ BraceFree(call.prefix)
    /\ BraceFree(call.suffix)

\* C18: for a raw text that holds a single well-formed JSON object, possibly
\* preceded and followed by prose, the extraction returns exactly the parsed
\* value of that object.
C18_ReturnsTheObject ==
    (ret.done /\ ObjectInProse) =>
        /\ ~ret.raised
        /\ ret.value = json_loads(call.body).value

\* index i of t is skipped by the scan as the character after a backslash
RECURSIVE Escaped(_, _, _)
Escaped(t, p, i) == i > p /\ t[i - 1] = Backslash /\ ~Escaped(t, p, i - 1)

\* index i of t lies outside every quoted string that starts at or after p
Outside(t, p, i) ==
    /\ ~Escaped(t, p, i)
    /\ Cardinality({j \in p..(i - 1) : t[j] = Quote /\ ~Escaped(t, p, j)}) % 2 = 0

\* the braces of t between p and i that count for the depth
Counted(t, p, i, c) == {j \in p..i : t[j] = c /\ Outside(t, p, j)}

\* the brace depth, counted from the first opening brace p on and ignoring
\* quoted strings, is back at zero at some closing brace
DepthReturnsToZero(t) ==
    LET p == find(t, "{")
    IN  /\ p > 0
        /\ \E i \in p..Len(t) :
              /\ t[i] = "}"
              /\ Outside(t, p, i)
              /\ Cardinality(Counted(t, p, i, "{")) = Cardinality(Counted(t, p, i, "}"))

\* the object holds a brace inside a quoted string
QuotedBrace(b) ==
    \E i \in 2..(Len(b) - 1) : b[i] \in {"{", "}"} /\ ~Outside(b, 1, i)

\* C19: for a text whose JSON object has braces inside a quoted string value,
\* also after escaped quotes, the depth scan ignores those braces: the text
\* it selects runs from the object's opening brace to its true closing brace.
C19_ScanIgnoresQuotedBraces ==
    (ret.done /\ call.fn = "extract_json" /\ WellFormedObject(call.body)
       /\ QuotedBrace(call.body) /\ BraceFree(call.prefix)
       /\ \A i \in 1..Len(call.body) : call.body[i] # Fence) =>
        ret.json_str = call.body

\* the object {"a":"\"}"}, a closing brace after an escaped quote inside the
\* string, followed by prose with a stray brace, was selected whole and decoded
C19_Witness ==
    /\ ret.done
    /\ call.fn = "extract_json"
    /\ call.body = Object(Str(<<Backslash, Quote, "}">>))
    /\ call.suffix = <<" ", "}">>
    /\ ~ret.raised
    /\ ret.json_str = call.body

\* C20: for a text with no opening brace the extraction fails with the error
\* for missing structured data, for a text whose brace depth never returns to
\* zero it fails with the error for malformed structured data, and scoring
\* reports the two causes as ValueErrors with different messages.
C20_DistinctFailureKinds ==
    (ret.done /\ call.fn = "extract_json") =>
        LET t == strip_fences(Raw)
            reported == match_candidate_to_job(TheCandidate, JobPosting(1),
                            [kind |-> gen_kind(Raw), output |-> NoOutput])
        IN  /\ (\A i \in 1..Len(Raw) : Raw[i] # "{") =>
                  /\ ret.raised
                  /\ ret.msg = "No JSON object found in agent output"
                  /\ reported.error = "ValueError"
                  /\ reported.msg[2] = ret.msg
            /\ ((\E i \in 1..Len(Raw) : Raw[i] = "{") /\ ~DepthReturnsToZero(t)) =>
                  /\ ret.raised
                  /\ ret.msg = "Malformed JSON in agent output"
                  /\ reported.error = "ValueError"
                  /\ reported.msg[2] = ret.msg

\* the cut-off text {"a":"} , whose only closing brace lies inside an unclosed
\* string, was reported as malformed
C20_Witness ==
    /\ ret.done
    /\ call.fn = "extract_json"
    /\ Raw = <<"{", Quote, "a", Quote, ":", Quote, "}">>
    /\ ret.raised
    /\ ret.msg = MalformedJson

\* index i of t holds a comma outside every string that is followed, after
\* optional white space, by a closing brace or bracket
TrailingComma(t, i) ==
    /\ t[i] = ","
    /\ Outside(t, 1, i)
    /\ SkipSpace(t, i + 1) <= Len(t)
    /\ t[SkipSpace(t, i + 1)] \in {"}", "]"}

\* t from index i on without its trailing commas
RECURSIVE WithoutTrailingCommas(_, _)
WithoutTrailingCommas(t, i) ==
    IF i > Len(t) THEN <<>>
    ELSE (IF TrailingComma(t, i) THEN <<>> ELSE <<t[i]>>)
             \o WithoutTrailingCommas(t, i + 1)

\* the object is well-formed except for its trailing commas
TrailingCommaObject(b) ==
    /\ b # <<>>
    /\ b[1] = "{"
    /\ ~json_loads(b).ok
    /\ WellFormedObject(WithoutTrailingCommas(b, 1))

\* C21: for a text whose JSON object is well-formed except for a trailing
\* comma before a closing brace or bracket, the scoring extraction succeeds and
\* returns the value of the object without the trailing comma.
C21_TrailingCommaRepaired ==
    (ret.done /\ call.fn = "extract_json" /\ TrailingCommaObject(call.body)) =>
        /\ ~ret.raised
        /\ ret.value = json_loads(WithoutTrailingCommas(call.body, 1)).value

\* C22: for any raw generator text, the extraction of profile extraction,
\* discovery and ranking selects the same candidate substring and reaches the
\* same success or failure as the extraction of the scoring stages.
C22_StagesExtractAlike ==
    (ret.done /\ call.fn = "search_json") =>
        /\ ret.raised = extract_json(Raw).raised
        /\ ret.json_str = extract_json(Raw).json_str

\* the label the claim assigns to a score
LabelOf(score) ==
    IF score >= 75 THEN "Strong Match - Recommend Interview"
    ELSE IF score >= 60 THEN "Good Match - Consider for Interview"
    ELSE IF score >= 50 THEN "Moderate Match - Review Carefully"
    ELSE "Weak Match - Likely Not Suitable"

\* the FitResults a scoring call returned
Returned_results ==
    IF IsSingle THEN <<ret.value>> ELSE ret.value

\* C23: the recommendation of every FitResult that scoring returns is the
\* label determined by its overall_fit_score: Strong Match from 75, Good Match
\* from 60 to 74, Moderate Match from 50 to 59, Weak Match below 50.
C23_LabelFollowsScore ==
    (ret.done /\ (IsSingle \/ IsBatch) /\ ~ret.raised) =>
        \A i \in 1..Len(Returned_results) :
            Returned_results[i].recommendation =
                LabelOf(Returned_results[i].overall_fit_score)

\* the scores of a FitResult lie in the ranges of the schema
WithinRanges(m) ==
    /\ m.overall_fit_score \in 0..100
    /\ m.skill_match_score \in 0..60
    /\ m.experience_match_score \in 0..30
    /\ \A k \in 1..Len(m.skill_matches) : m.skill_matches[k] \in 0..StrengthOne

\* C24: every FitResult that single or batch scoring returns has
\* overall_fit_score in [0,100], skill_match_score in [0,60],
\* experience_match_score in [0,30] and every match_strength in [0,1]; a
\* generator output outside these ranges is rejected with a ValueError.
C24_ScoresWithinRanges ==
    (ret.done /\ (IsSingle \/ IsBatch)) =>
        /\ ~ret.raised =>
              \A i \in 1..Len(Returned_results) : WithinRanges(Returned_results[i])
        /\ (IsSingle /\ call.gen.kind = "json" /\ ~WithinRanges(call.gen.output)) =>
              (ret.raised /\ ret.error = "ValueError")
        /\ (IsBatch /\ call.gen.kind = "json" /\ call.jobs # <<>>
              /\ \E i \in 1..Len(call.gen.job_matches) :
                    ~WithinRanges(call.gen.job_matches[i])) =>
              (ret.raised /\ ret.error = "ValueError")

\* a complete output with scores 100, 30 and 15, whose only defect is a
\* match_strength above 1, was rejected
C24_Witness ==
    /\ ret.done
    /\ IsSingle
    /\ call.gen.kind = "json"
    /\ call.gen.output.complete
    /\ call.gen.output.overall_fit_score = 100
    /\ call.gen.output.skill_match_score = 30
    /\ call.gen.output.experience_match_score = 15
    /\ call.gen.output.skill_matches = <<5, StrengthOne + 1>>
    /\ ret.raised
    /\ ret.error = "ValueError"

\* the text-generation calls made by the stages of the current pipeline run
RECURSIVE RunCalls(_)
RunCalls(stages) ==
    IF stages = <<>> THEN 0 ELSE Head(stages).gen_calls + RunCalls(Tail(stages))

\* C26: there is no retry: an invocation of analyze_resume, find_jobs or
\* rank_opportunities makes at most one text-generation call, also when the
\* call fails, match_all_jobs makes at most one per discovered opportunity,
\* generate_report makes none, and the stages of a run_full_pipeline over N
\* discovered opportunities make at most N + 3 calls together.
C26_NoRetry ==
    [][/\ last'.op \in {"analyze_resume", "find_jobs", "rank_opportunities"} =>
            last'.gen_calls <= 1
       /\ last'.op = "match_all_jobs" => last'.gen_calls <= Len(discovered_jobs')
       /\ last'.op \in {"generate_report", "run_full_pipeline"} =>
            last'.gen_calls = 0
       /\ pc # "idle" => RunCalls(run'.stages) <= Len(discovered_jobs') + 3]_vars

\* a pipeline run made one extraction call, then its one discovery call
\* failed and the run ended: two calls, none made twice
C26_Witness ==
    /\ run.status = "raised"
    /\ last.op = "find_jobs"
    /\ last.failed = 1
    /\ last.gen_calls = 1
    /\ Len(run.stages) = 2
    /\ RunCalls(run.stages) = 2

\* the responses in seen, the record of the steps of a run, that a
\* crew.kickoff() of the run received
Received(seen) ==
    SelectSeq(seen, LAMBDA r : "gen" \in DOMAIN r /\ r # NoKickoff)

\* run_full_pipeline from the stage at c.pc on, run with no other thread: each
\* stage is one call of the method, and its kickoffs receive resp in order
RECURSIVE run_alone(_, _)
run_alone(c, resp) ==
    IF c.pc \in {"returned", "raised"} THEN c
    ELSE LET n == IF ~Kicks(c) THEN 0
                  ELSE IF c.pc = "match" THEN Len(c.self.discovered_jobs)
                  ELSE 1
             r == IF n = 0 THEN NoKickoff
                  ELSE IF c.pc = "match"
                  THEN [gens |-> [j \in 1..n |-> resp[j].gen]]
                  ELSE resp[1]
         IN  run_alone(stage_end(c, stage_call(c, r)),
                       SubSeq(resp, n + 1, Len(resp)))

\* the attributes and the end of the run of a JobSearchCrew that is the only
\* object of the program, for the num_jobs argument and the responses in seen
Alone(seen) ==
    LET c == run_alone(
                 [NewCrew EXCEPT
                     !.self = log(log(log(@, E(0, "rule")), E(0, "start")),
                                  E(0, "rule")),
                     !.pc = "analyze", !.num_jobs = seen[1].num_jobs],
                 Received(seen))
    IN  [self |-> c.self, pc |-> c.pc]

\* the attributes of instance i in cs, lists by value, and where its run is
View(cs, i) ==
    LET c == fields(cs.objs[i], cs.heap) IN [self |-> c.self, pc |-> c.pc]

\* C27: pipeline runs on distinct instances are independent: a step of the
\* thread of one instance changes no attribute of the other instance, no list
\* that the other instance refers to and not the position of its run, and a
\* run that has ended, however the two threads were interleaved, has ended
\* where and with the attributes with which the run of a single instance
\* ends for the same arguments and collaborator responses.
C27_InstancesIndependent ==
    [][/\ \A i \in Instances :
            crews'.objs[i].responses # crews.objs[i].responses =>
                \A k \in Instances \ {i} : View(crews', k) = View(crews, k)
       /\ \A i \in Instances :
            crews'.objs[i].pc \in {"returned", "raised"} =>
                View(crews', i) = Alone(crews'.objs[i].responses)]_vars

\* both runs went through extraction and discovery and were aborted by the
\* scoring stage, each holding the profile of its own candidate, its own
\* trace of ten entries and its own list of opportunities, a list created by
\* its discovery stage
C27_Witness ==
    /\ crews # NoCrews
    /\ crews.objs[1].pc = "raised"
    /\ crews.objs[2].pc = "raised"
    /\ Len(crews.objs[1].responses) = 6
    /\ Len(crews.objs[2].responses) = 6
    /\ crews.objs[1].self.candidate_profile # None
    /\ crews.objs[2].self.candidate_profile # None
    /\ crews.objs[1].self.candidate_profile
          # crews.objs[2].self.candidate_profile
    /\ Len(crews.heap[crews.objs[1].self.execution_log]) = 10
    /\ Len(crews.heap[crews.objs[2].self.execution_log]) = 10
    /\ crews.objs[1].self.execution_log # crews.objs[2].self.execution_log
    /\ crews.objs[1].self.discovered_jobs > 6
    /\ crews.objs[2].self.discovered_jobs > 6
    /\ crews.objs[1].self.discovered_jobs # crews.objs[2].self.discovered_jobs

\* C28: find_jobs, match_all_jobs, rank_opportunities and generate_report
\* never assign candidate_profile, and inside a run_full_pipeline call no step
\* other than the profile-extraction stage assigns it: it is set at most once
\* per run and only read afterwards.
C28_ProfileSetOnce ==
    [][/\ last'.op \in {"find_jobs", "match_all_jobs", "rank_opportunities",
                        "generate_report", "run_full_pipeline"} =>
            candidate_profile' = candidate_profile
       /\ (pc # "idle" /\ pc # "analyze") =>
            candidate_profile' = candidate_profile]_vars

\* a pipeline run on an instance that had been used before went through
\* extraction and discovery and ended at the scoring stage: the profile is
\* the one its extraction stage set
C28_Witness ==
    /\ run.status = "raised"
    /\ last.op = "match_all_jobs"
    /\ run.start > 0
    /\ Count(execution_log, E(1, "ok")) = 2
    /\ Len(run.stages) = 3
    /\ candidate_profile = Some(CandidateProfile("Bob", 1))

\* the fixed closed set of categories, written out
ClosedSet ==
    {<<Token("programming", FALSE), Token("_", FALSE), Token("language", FALSE)>>,
     <<Token("framework", FALSE)>>, <<Token("library", FALSE)>>,
     <<Token("tool", FALSE)>>, <<Token("platform", FALSE)>>,
     <<Token("soft", FALSE), Token("_", FALSE), Token("skill", FALSE)>>,
     <<Token("domain", FALSE), Token("_", FALSE), Token("knowledge", FALSE)>>,
     <<Token("database", FALSE)>>, <<Token("cloud", FALSE)>>,
     <<Token("devops", FALSE)>>, <<Token("methodology", FALSE)>>,
     <<Token("other", FALSE)>>}

\* the string is a category or, once normalized, a category or a mapped name
Recognized(v) ==
    \/ v \in ClosedSet
    \/ normalized(v) \in ClosedSet
    \/ \E m \in category_mapping : Joined(m[1], "_", FALSE) = normalized(v)

\* C30: category normalization never rejects and, for every input string,
\* returns a member of the closed set of categories: a valid category is
\* returned unchanged, an unrecognized string gives "other", and normalizing
\* the result returns it unchanged.
C30_NormalizationTotal ==
    ret.done =>
        /\ ~ret.raised
        /\ ret.value \in ClosedSet
        /\ (ret.times = 1 /\ call.v \in ClosedSet) => ret.value = call.v
        /\ (ret.times = 1 /\ ~Recognized(call.v)) =>
              ret.value = <<Token("other", FALSE)>>
        /\ ret.times = 2 => ret.value = ret.first

\* "Machine-Learning " in upper case with spaces around it was normalized to
\* domain_knowledge, and normalizing domain_knowledge returned it again
C30_Witness ==
    /\ ret.done
    /\ ret.times = 2
    /\ call.v = Written(<<"machine", "learning">>, "-", TRUE, <<" ">>)
    /\ ret.first = Joined(<<"domain", "knowledge">>, "_", FALSE)
    /\ ret.value = ret.first

\* the number of a tier label
TierNumber(tier) ==
    CASE tier = "TIER 1" -> 1 [] tier = "TIER 2" -> 2
      [] tier = "TIER 3" -> 3 [] tier = "TIER 4" -> 4

\* f maps the positions of the ranked list one-to-one onto the positions of
\* the inputs they were made from, in input order among equal scores
StableCorrespondence(f, ranked_jobs, match_results) ==
    /\ \A i, j \in 1..Len(ranked_jobs) : i # j => f[i] # f[j]
    /\ \A i \in 1..Len(ranked_jobs) :
          /\ ranked_jobs[i].job_id = match_results[f[i]].job_posting.job_id
          /\ ranked_jobs[i].final_score = match_results[f[i]].overall_fit_score
    /\ \A i, j \in 1..Len(ranked_jobs) :
          (i < j /\ ranked_jobs[i].final_score = ranked_jobs[j].final_score) =>
              f[i] < f[j]

\* C35: the fallback ranking is a permutation of its input: one entry per
\* input FitResult, ranks 1..n in list order, final_score non-increasing and
\* tiers non-decreasing along the list, inputs of equal score in input order.
C35_FallbackIsStablePermutation ==
    (ret.done /\ Len(call.match_results) >= 2
       /\ call.gen.kind \in {"no_json", "bad_json"}) =>
        LET r == ret.value.ranked_jobs
            n == Len(call.match_results)
        IN  /\ Len(r) = n
            /\ \E f \in [1..n -> 1..n] :
                  StableCorrespondence(f, r, call.match_results)
            /\ \A i \in 1..Len(r) : r[i].rank = i
            /\ \A i \in 1..(Len(r) - 1) :
                  /\ r[i].final_score >= r[i + 1].final_score
                  /\ TierNumber(r[i].tier) <= TierNumber(r[i + 1].tier)

\* opportunity 2 scored 60 was given before opportunity 1 scored 85 and
\* opportunity 1 scored 60: the ranking is 85, then the two 60s with
\* opportunity 2 first
C35_Witness ==
    /\ ret.done
    /\ call.gen.kind = "bad_json"
    /\ call.match_results = <<Scored(2, 60), Scored(1, 85), Scored(1, 60)>>
    /\ ret.value.ranked_jobs[1].final_score = 85
    /\ ret.value.ranked_jobs[2].job_id = 2
    /\ ret.value.ranked_jobs[3].job_id = 1
    /\ ret.value.ranked_jobs[3].tier = "TIER 2"

\* index i of the object b lies inside a quoted string and holds a code
\* fence, or a comma that is followed, after optional white space, by a
\* closing brace or bracket
RepairTarget(b, i) ==
    /\ ~Outside(b, 1, i)
    /\ b[i] # Quote
    /\ \/ b[i] = Fence
       \/ /\ b[i] = ","
          /\ SkipSpace(b, i + 1) <= Len(b)
          /\ b[SkipSpace(b, i + 1)] \in {"}", "]"}

\* C36: fence stripping and trailing-comma repair never change the content of
\* a quoted string: for a well-formed JSON object one of whose strings holds a
\* comma followed by a closing brace or bracket, or a code fence, the scoring
\* extraction returns the value of the object as it was written.
C36_StringsSurviveRepair ==
    (ret.done /\ call.fn = "extract_json" /\ ObjectInProse
       /\ \E i \in 1..Len(call.body) : RepairTarget(call.body, i)) =>
        /\ ~ret.raised
        /\ ret.value = json_loads(call.body).value

\* s is a subsequence of t: s is t with some elements left out
RECURSIVE IsSubsequence(_, _)
IsSubsequence(s, t) ==
    IF s = <<>> THEN TRUE
    ELSE IF t = <<>> THEN FALSE
    ELSE IF Head(s) = Head(t) THEN IsSubsequence(Tail(s), Tail(t))
    ELSE IsSubsequence(s, Tail(t))

\* C37: every opportunity discover_jobs returns is one of the records the
\* search collaborator returned, never one named only by the generator and
\* never an error record, and the list is a subsequence of the collaborator's
\* records: nothing is returned when the search gave only an error record.
C37_ResultsFromSearch ==
    (ret.done /\ ~ret.raised) =>
        LET records == JobSearchTool_run(call.api, SearchLimit)
            found == SelectSeq(records, LAMBDA r : ~r.error)
        IN  /\ found = <<>> => ret.value = <<>>
            /\ \A i \in 1..Len(ret.value) : ret.value[i].job_id # NullId
            /\ IsSubsequence([i \in 1..Len(ret.value) |-> ret.value[i].job_id],
                             [i \in 1..Len(found) |-> found[i].job_id])

\* the generator recommended opportunity 1 only and the search gave the error
\* record: the result holds neither opportunity 1 nor a posting made from the
\* error record
C37_Witness ==
    /\ ret.done
    /\ ~ret.raised
    /\ call.gen.kind = "json"
    /\ RecommendedIds(call.gen) = {1}
    /\ call.num_jobs >= 1
    /\ JobSearchTool_run(call.api, SearchLimit) = <<ErrorRecord>>
    /\ ret.value = <<>>

\* every method of JobSearchCrew the processing page called returned
EveryStageSucceeded ==
    \A i \in 1..Len(st.analysis.stages) :
        st.analysis.stages[i].op \in JobSearchCrewMethods =>
            ~st.analysis.stages[i].raised

\* C38: once the processing page (step 6) has run, if the extraction of the
\* resume text and every orchestrator stage succeeded (and the storage could
\* be opened), the report is stored and the wizard is on the results page
\* (step 7); it stays on step 6, with the button back to step 5, only after
\* an error of the extraction or of a stage.
C38_SuccessLeadsToResults ==
    (/\ st.session_state.step \in {6, 7}
     /\ st.analysis.ran
     /\ st.analysis.extracted
     /\ EveryStageSucceeded
     /\ st.analysis.error # "storage") =>
        /\ st.session_state.step = 7
        /\ st.session_state.results # None

\* C39: the wizard's step stays within 1..7; one run of the script moves it
\* forward by at most one and back by at most one (the retry leads from 6 to
\* 5), except for the reset from the results page to step 1; and the results
\* page (step 7) is only shown with a stored report.
C39_StepsInOrder ==
    /\ [](/\ st.session_state.step \in 1..7
          /\ st.session_state.step = 7 => st.session_state.results # None)
    /\ [][\/ st'.session_state.step - st.session_state.step \in {-1, 0, 1}
          \/ /\ st.session_state.step = 7
             /\ st'.session_state.step = 1]_vars

\* the form was filled in, the processing page ran and failed, and the retry
\* button led back from step 6 to the upload page
C39_Witness ==
    /\ st.session_state.step = 5
    /\ st.analysis.ran
    /\ st.analysis.error # "none"
    /\ DOMAIN st.session_state.form_data =
          {"full_name", "experience_level", "work_preference",
           "location_preference", "country", "target_role", "resume_file"}
    /\ st.session_state.results = None

====
